---- MODULE Spec2Model ----
(***************************************************************************)
(* A model of the organixa storefront client.                              *)
(*                                                                         *)
(*   Spec           the dashboard store (useDashboardStore.fetchStats):    *)
(*                  two overlapping invocations, a clock and the backend   *)
(*   SpecAggregate  the order aggregation of fetchStats as a function of   *)
(*                  the orders table                                       *)
(*   SpecStock      the stock classification at the three sites showing it *)
(*   SpecDiscount   the discount badge at the three sites showing it,      *)
(*                  computed in binary64 arithmetic                        *)
(*   SpecMedia      getPublicUrlFromPath, in four of its copies            *)
(*   SpecUpload     uploadFile of the add-product and edit-product pages   *)
(*   SpecAddresses  the writers of user_profiles.addresses, in two tabs    *)
(*   SpecRealtime   one visit of the cart, favorites or orders page: its   *)
(*                  fetch and its postgres_changes listener                *)
(*   SpecCheckout   CheckoutDetailsModal: the form, the payment widget and *)
(*                  handlePaymentSuccess / handlePaymentFailure            *)
(*   SpecPublish    the add-product page behind the company approval flag, *)
(*                  and the pages that list approved products              *)
(*   SpecCartOrder  CartPage: search, checkout of the listed items and     *)
(*                  handleOrderSuccess                                     *)
(*   SpecRefresh    two overlapping invocations of fetchStats              *)
(*   SpecSession    fetchStats and the add-product page's company check    *)
(*                  over the persisted store, while the session changes    *)
(*   SpecCallback   AuthCallback: auth events, role check and redirect     *)
(*   SpecImages     the image handlers of AddEditProductForm               *)
(*   SpecEdit       EditProductPage: the form's video, handleSaveProduct   *)
(*   SpecPersist    the store, its localStorage entry and a page reload    *)
(*   SpecAddToCart  handleAddToCart of the favorites page and the product  *)
(*                  page, in two open pages                                *)
(*                                                                         *)
(* Time is counted in minutes (CACHE_DURATION is 5 * 60 * 1000 ms).        *)
(* Amounts are whole rupees.                                               *)
(***************************************************************************)
EXTENDS Integers, Sequences, FiniteSets, TLC

VARIABLES
    \* ---- useDashboardStore (zustand state)
    stats,          \* <<>> for null, <<record>> for a DashboardStats value
    loading,
    error,          \* Null or a message
    lastFetched,    \* NoTimestamp for null, else a Date.now() value
    \* ---- the runtime around the store
    now,            \* Date.now()
    pc,             \* per invocation of fetchStats: where it is suspended
    force,          \* per invocation: the force argument
    evlog,          \* per invocation: the backend calls it made and their returns
    outcome,        \* per invocation: how it ended
    productsData,   \* per invocation: the products rows it read
    startMiss,      \* per invocation: no fresh cache existed when it started
    overlap,        \* per invocation: another invocation was in flight with it
    \* ---- the backend
    dbOrders,       \* the orders table
    \* ---- the aggregation on its own
    aggOut,         \* <<>> or <<totals computed from dbOrders>>
    \* ---- stock classification at its three sites
    stockField,     \* the form's stockQuantity field: a string of digits
    stockShown,     \* per site: the class shown, "none" before it renders
    \* ---- the discount badge at its three sites
    priceFields,    \* the form's originalPrice and discountPrice: strings of digits
    discountShown,  \* per site: what is displayed, kind "none" before it renders
    \* ---- getPublicUrlFromPath in its copies
    mediaPath,      \* the path argument, a string (<<>>: empty or undefined)
    mediaResult,    \* per copy: how the call ended, kind "none" before it runs
    \* ---- uploadFile
    fileName,       \* file.name, a sequence of UTF-16 code units
    companyId,      \* the company's id, NoCompany while companyStatus is missing
    uploadResult,   \* how uploadFile ended, kind "none" before it runs
    \* ---- user_profiles.addresses of one user and the tabs editing it
    profileAddresses, \* the stored list: a sequence of [id, isDefault]
    registered,     \* handleRegister has created the profile row
    addrTab,        \* per tab: the editor open in it and what it read
    addrNextId,     \* the next fresh uuid
    addrWrites,     \* how many writes of the list the backend has accepted
    addrOverlapped, \* an editor was started while the other tab's was under way
    addrLast,       \* the last accepted write: who, from how old a read, over what
    addrLost,       \* ids a write removed from the stored list
    \* ---- one visit of a page with a realtime listener
    cartItemsTable, \* cart_items of the user, as the number of its last change
    ordersStatus,   \* orders.status of the user's order
    mounted,        \* the page the tab shows, "none" before it mounts one
    page,           \* the mounted page's React state and its fetches in flight
    channel,        \* notifications the realtime client has yet to deliver
    changes,        \* how many events the page's surroundings have produced
    \* ---- CheckoutDetailsModal
    checkout,       \* the modal's React state and where its handlers are
    orderRows,      \* the rows this user has inserted into orders
    requests,       \* backend requests of the running handlePaymentSuccess
    \* ---- publishing a product
    companyApproved, \* companies.is_approved of the vendor's company
    companyStatus,  \* the store's companyStatus, kept in localStorage: <<>> for null
    addProduct,     \* AddProductPage: its React state and where its handlers are
    productsTable,  \* the products table: a sequence of rows
    homeProducts,   \* the products state of Home: indices of the rows it lists
    productShown,   \* what ProductPage rendered for the id it was asked
    \* ---- an order placed from CartPage
    cartRows,       \* cart_items of the user: a set of rows
    cartView, \* CartPage: its list, its search term, its checkout
    \* ---- add-to-cart of one user and one product
    cartProductRows, \* how many rows cart_items holds for that user and product
    adder,  \* per open page: where its handleAddToCart is
    \* ---- the persisted store across sessions of one browser
    sessionUser,    \* the user the auth session belongs to, NoUser for none
    dashCache,      \* the store's stats, lastFetched, companyStatus
    refresh,        \* per invocation of fetchStats: where it is and what it read
    refreshStarts,  \* how many invocations went past the cache check
    refreshNow,     \* Date.now()
    refreshOrders,  \* the orders table
    addProductGate, \* AddProductPage: its company check
    sessionChanges, \* how many times the session changed hands
    \* ---- the auth callback page
    callbackMount,  \* per mount of AuthCallback: its ref and what its handler did
    callbackCurrent, \* the mount on screen, NoMount for none
    callbackSubscribed, \* the effect's onAuthStateChange subscription is active
    authEvents, \* how many auth events were delivered
    \* ---- the images of AddEditProductForm
    selectedImages, \* the files chosen in this form, in order
    existingImages, \* the urls of the stored images still kept
    removedImageUrls, \* the urls of the stored images taken out
    imageError,     \* the form's error text
    imageEvents,    \* how many image events the form has handled
    lastAdd, \* the files of the last select or drop, and the count it met
    \* ---- editing a product
    editRow,        \* the products row being edited: its video path, its approval
    storageVideos,  \* the paths of the files in product-media/videos
    editForm, \* EditProductPage and its form: the video state, the save under way
    \* ---- the store and its entry in localStorage
    storeState,     \* the store of one tab
    storageItem,    \* localStorage["dashboard-storage"], NoItem while absent
    pageDraft,      \* initialFormState of the add-product page
    storeUpdates,   \* how many times the store was set since the last reload
    reloads         \* how many times the page was reloaded

dashVars == <<stats, loading, error, lastFetched, now, pc, force, evlog,
              outcome, productsData, startMiss, overlap>>
stockVars == <<stockField, stockShown>>
discountVars == <<priceFields, discountShown>>
mediaVars == <<mediaPath, mediaResult>>
uploadVars == <<fileName, companyId, uploadResult>>
addrVars == <<profileAddresses, registered, addrTab, addrNextId, addrWrites,
              addrOverlapped, addrLast, addrLost>>
feedVars == <<cartItemsTable, ordersStatus, mounted, page, channel, changes>>
checkoutVars == <<checkout, orderRows, requests>>
publishVars == <<companyApproved, companyStatus, addProduct, productsTable, homeProducts,
                 productShown>>
cartOrderVars == <<cartRows, cartView>>
addToCartVars == <<cartProductRows, adder>>
sessionVars == <<sessionUser, dashCache, refresh, refreshStarts, refreshNow, refreshOrders, addProductGate, sessionChanges>>
callbackVars == <<callbackMount, callbackCurrent, callbackSubscribed, authEvents>>
imageVars == <<selectedImages, existingImages, removedImageUrls, imageError, imageEvents, lastAdd>>
editVars == <<editRow, storageVideos, editForm>>
persistVars == <<storeState, storageItem, pageDraft, storeUpdates, reloads>>
newerVars == <<cartOrderVars, addToCartVars, sessionVars, callbackVars, imageVars, editVars, persistVars>>
laterVars == <<addrVars, feedVars, checkoutVars, publishVars, newerVars>>
earlierVars == <<dashVars, dbOrders, aggOut, stockVars, discountVars, mediaVars, uploadVars>>
settledVars == <<earlierVars, addrVars, feedVars, checkoutVars, publishVars>>
vars == <<earlierVars, laterVars>>

----------------------------------------------------------------------------
\* Bounds of the model
MaxClock == 7
MaxOrders == 3
MaxItems == 2
MaxStock == 15
MaxPrice == 40
MaxPathLen == 5
MaxNameLen == 3
MaxEdits == 2
MaxNotifications == 2
MaxPayments == 2
MaxProducts == 2
MaxAdminChanges == 2
MaxTermLen == 1
MaxAdds == 2
MaxStoreUpdates == 3
MaxReloads == 2
MaxSaves == 2
MaxFilesPerAdd == 3
MaxImageEvents == 4
MaxMounts == 2
MaxAuthEvents == 3
MaxEffectRuns == 2
MaxRefreshes == 2
MaxSessionChanges == 2

\* Program constants
CACHE_DURATION == 5
NoTimestamp == 0
LOW_STOCK_LIMIT == 10
PREVIEW_GREEN_ABOVE == 10
CARD_FEW_LEFT_BELOW == 10
DOUBLE_PRECISION == 53
NoCompany == 0
NoAddress == 0
NoTab == 0
IMAGE_LIMIT == 5

Null == "null"
Calls == {1, 2}

----------------------------------------------------------------------------
\* Initial values

StockSites == {"dashboard", "formPreview", "productCard"}

InitStore ==
    /\ stats = <<>>
    /\ loading = TRUE
    /\ error = Null
    /\ lastFetched = NoTimestamp
    /\ now = 1
    /\ pc = [c \in Calls |-> "idle"]
    /\ force = [c \in Calls |-> FALSE]
    /\ evlog = [c \in Calls |-> <<>>]
    /\ outcome = [c \in Calls |-> "none"]
    /\ productsData = [c \in Calls |-> <<>>]
    /\ startMiss = [c \in Calls |-> FALSE]
    /\ overlap = [c \in Calls |-> FALSE]

InitStockIdle ==
    /\ stockField = <<>>
    /\ stockShown = [s \in StockSites |-> "none"]

DiscountSites == {"formPricing", "formPreview", "productCard"}

NotShown == [kind |-> "none", value |-> 0]

InitDiscountIdle ==
    /\ priceFields = [originalPrice |-> <<>>, discountPrice |-> <<>>]
    /\ discountShown = [s \in DiscountSites |-> NotShown]

MediaCopies == {"addfav", "part_003", "editProduct", "productCard"}

NotCalled == [kind |-> "none", path |-> <<>>]

InitMediaIdle ==
    /\ mediaPath = <<>>
    /\ mediaResult = [c \in MediaCopies |-> NotCalled]

NotUploaded == [kind |-> "none", sanitizedFileName |-> <<>>, uniqueFileName |-> <<>>]

InitUploadIdle ==
    /\ fileName = <<>>
    /\ companyId = NoCompany
    /\ uploadResult = NotUploaded

InitOthersIdle == InitDiscountIdle /\ InitMediaIdle /\ InitUploadIdle

AddrTabs == {1, 2}

TabIdle == [pc |-> "idle", op |-> "none", selectedNew |-> FALSE, withAddress |-> FALSE,
            isDefaultAddress |-> FALSE, snapshot |-> <<>>, readAt |-> 0, edits |-> 0]

NoWrite == [tab |-> NoTab, op |-> "none", stale |-> FALSE, defaultsBefore |-> 0]

InitAddrIdle ==
    /\ profileAddresses = <<>>
    /\ registered = FALSE
    /\ addrTab = [t \in AddrTabs |-> TabIdle]
    /\ addrNextId = 1
    /\ addrWrites = 0
    /\ addrOverlapped = FALSE
    /\ addrLast = NoWrite
    /\ addrLost = {}

Pages == {"cart", "favorites", "orders"}

\* useState(...) of the three pages: loading starts true, the lists empty
PageInitial ==
    [loading |-> TRUE, error |-> Null,
     cartItems |-> <<>>, favorites |-> <<>>, orders |-> <<>>,
     inFlight |-> [session |-> 0, select |-> 0],
     started |-> 0, delivered |-> 0, redirected |-> FALSE, failed |-> FALSE]

InitFeedIdle ==
    /\ cartItemsTable = 0
    /\ ordersStatus = "confirmed"
    /\ mounted = "none"
    /\ page = PageInitial
    /\ channel = <<>>
    /\ changes = 0

\* selectedAddressId: null, "new" or the id of one of userAddresses
NoSelection == [kind |-> "null", id |-> NoAddress]

NewSelection == [kind |-> "new", id |-> NoAddress]

Existing(id) == [kind |-> "existing", id |-> id]

\* the modal before isOpen
CheckoutClosed ==
    [pc |-> "closed", userAddresses |-> <<>>, selectedAddressId |-> NoSelection,
     profileFetched |-> FALSE, showRazorpay |-> FALSE, error |-> Null,
     validated |-> FALSE, report |-> "none", opened |-> 0, failures |-> 0]

InitCheckoutIdle ==
    /\ checkout = CheckoutClosed
    /\ orderRows = <<>>
    /\ requests = <<>>

\* AddProductPage before it is mounted
AddProductUnmounted ==
    [pc |-> "unmounted", pageLoading |-> TRUE, isSaving |-> FALSE,
     submissionError |-> <<>>, fromCache |-> FALSE, saves |-> 0]

NothingShown == [kind |-> "none", id |-> 0]

InitPublishIdle ==
    /\ companyApproved = FALSE
    /\ companyStatus = <<>>
    /\ addProduct = AddProductUnmounted
    /\ productsTable = <<>>
    /\ homeProducts = {}
    /\ productShown = NothingShown

\* CartPage with its list not yet fetched
CartViewInitial ==
    [pc |-> "browsing", cartItems |-> {}, fetched |-> FALSE, searchTerm |-> <<>>,
     showCheckoutModal |-> FALSE, ordered |-> {}]

InitCartOrderIdle ==
    /\ cartRows = {}
    /\ cartView = CartViewInitial

AdderIds == {1, 2}

AdderIdle == [pc |-> "idle", site |-> "none", adds |-> 0]

InitAddToCartIdle ==
    /\ cartProductRows = 0
    /\ adder = [h \in AdderIds |-> AdderIdle]

NoUser == "none"

EmptyCache == [stats |-> <<>>, lastFetched |-> NoTimestamp, companyStatus |-> <<>>]

RefreshIdle ==
    [pc |-> "idle", force |-> FALSE, startNo |-> 0, userId |-> NoUser, orders |-> <<>>,
     outcome |-> "none", result |-> <<>>, served |-> <<>>, servedTo |-> NoUser]

GateUnmounted == [pc |-> "unmounted", company |-> <<>>, user |-> NoUser]

InitSessionIdle ==
    /\ sessionUser = NoUser
    /\ dashCache = EmptyCache
    /\ refresh = [c \in Calls |-> RefreshIdle]
    /\ refreshStarts = 0
    /\ refreshNow = 1
    /\ refreshOrders = <<>>
    /\ addProductGate = GateUnmounted
    /\ sessionChanges = 0

MountIds == 1..MaxMounts

NoMount == 0

MountFresh ==
    [redirectStarted |-> FALSE, selects |-> 0, delivered |-> 0, checks |-> 0,
     redirects |-> 0, target |-> "none", effectRuns |-> 0]

InitCallbackIdle ==
    /\ callbackMount = [m \in MountIds |-> MountFresh]
    /\ callbackCurrent = NoMount
    /\ callbackSubscribed = FALSE
    /\ authEvents = 0

NoAdd == [files |-> <<>>, total |-> 0]

InitImagesIdle ==
    /\ selectedImages = <<>>
    /\ existingImages = <<>>
    /\ removedImageUrls = <<>>
    /\ imageError = ""
    /\ imageEvents = 0
    /\ lastAdd = NoAdd

NoPath == <<>>

NoFile == <<>>

\* null where a url is expected
NullUrl == [kind |-> "null", path |-> <<>>]

EditFormUnloaded ==
    [pc |-> "unloaded", copy |-> "none", existingProductVideoUrl |-> NullUrl,
     selectedVideo |-> NoFile, existingVideoUrl |-> NullUrl, removed |-> FALSE,
     newVideo |-> NoFile, finalProductVideoPath |-> NoPath, submissionError |-> ""]

InitEditIdle ==
    /\ editRow = [product_video_url |-> NoPath, is_approved |-> FALSE, saves |-> 0, approvals |-> 0]
    /\ storageVideos = {}
    /\ editForm = EditFormUnloaded

\* part_000 lines 82-88: the store as created; <<>> stands for null
StoreCreated ==
    [stats |-> <<>>, loading |-> TRUE, error |-> Null, lastFetched |-> <<>>,
     companyStatus |-> <<>>, addProductFormState |-> <<>>]

NoItem == <<>>

InitPersistIdle ==
    /\ storeState = StoreCreated
    /\ storageItem = NoItem
    /\ pageDraft = <<>>
    /\ storeUpdates = 0
    /\ reloads = 0

InitNewerIdle == InitCartOrderIdle /\ InitAddToCartIdle /\ InitSessionIdle /\ InitCallbackIdle /\ InitImagesIdle /\ InitEditIdle /\ InitPersistIdle

InitLaterIdle ==
    InitAddrIdle /\ InitFeedIdle /\ InitCheckoutIdle /\ InitPublishIdle /\ InitNewerIdle

----------------------------------------------------------------------------
\* The backend's rows

\* products of the signed-in company (company A); b1 is another company's
CompanyProducts ==
    << [id |-> "a1", stock_quantity |-> 0,  is_approved |-> TRUE],
       [id |-> "a2", stock_quantity |-> 4,  is_approved |-> FALSE] >>

ItemA1 == [product_id |-> "a1", price_at_purchase |-> 200, quantity |-> 1]
ItemA2 == [product_id |-> "a2", price_at_purchase |-> 150, quantity |-> 2]
ItemB1 == [product_id |-> "b1", price_at_purchase |-> 300, quantity |-> 1]

ItemKinds == {ItemA1, ItemA2, ItemB1}

SeqsUpTo(S, n) == UNION { [1..k -> S] : k \in 0..n }

OrderRows ==
    { [status |-> "confirmed", order_items |-> its] : its \in SeqsUpTo(ItemKinds, MaxItems) }

\* the orders tables the dashboard specification moves between
DashOrderTables ==
    { << [status |-> "confirmed", order_items |-> <<ItemA1>>] >>,
      << [status |-> "confirmed", order_items |-> <<ItemA1>>],
         [status |-> "confirmed", order_items |-> <<ItemB1, ItemA2>>] >> }

----------------------------------------------------------------------------
\* fetchStats: the client-side aggregation

IdsOf(products) == { products[i].id : i \in 1..Len(products) }

RECURSIVE ItemsForEach(_, _, _)
ItemsForEach(items, companyProductIds, acc) ==
    IF items = <<>> THEN acc
    ELSE LET item == Head(items)
             next == IF item.product_id \in companyProductIds
                     THEN [hasCompanyProductInOrder |-> TRUE,
                           companySpecificOrderAmount |->
                               acc.companySpecificOrderAmount
                                   + item.price_at_purchase * item.quantity]
                     ELSE acc
         IN  ItemsForEach(Tail(items), companyProductIds, next)

RECURSIVE AllItemsAmount(_)
AllItemsAmount(items) ==
    IF items = <<>> THEN 0
    ELSE Head(items).price_at_purchase * Head(items).quantity + AllItemsAmount(Tail(items))

\* the loop body adding the whole order's amount (every item, as total_amount does)
OrderStepWholeOrder(order, companyProductIds, tot) ==
    LET r == ItemsForEach(order.order_items, companyProductIds,
                          [hasCompanyProductInOrder |-> FALSE,
                           companySpecificOrderAmount |-> 0])
    IN  IF r.hasCompanyProductInOrder
        THEN [totalOrders |-> tot.totalOrders + 1,
              totalSalesAmount |-> tot.totalSalesAmount + AllItemsAmount(order.order_items),
              pendingOrders |-> tot.pendingOrders
                  + (IF order.status \in {"pending", "confirmed"} THEN 1 ELSE 0)]
        ELSE tot

\* lines 183-217: the body of allOrdersData.forEach
OrderStep(order, companyProductIds, tot) ==
    LET r == ItemsForEach(order.order_items, companyProductIds,
                          [hasCompanyProductInOrder |-> FALSE,
                           companySpecificOrderAmount |-> 0])
    IN  IF r.hasCompanyProductInOrder
        THEN [totalOrders |-> tot.totalOrders + 1,
              totalSalesAmount |-> tot.totalSalesAmount + r.companySpecificOrderAmount,
              pendingOrders |-> tot.pendingOrders
                  + (IF order.status \in {"pending", "confirmed"} THEN 1 ELSE 0)]
        ELSE tot

RECURSIVE OrdersForEach(_, _, _)
OrdersForEach(orders, companyProductIds, tot) ==
    IF orders = <<>> THEN tot
    ELSE OrdersForEach(Tail(orders), companyProductIds,
                       OrderStep(Head(orders), companyProductIds, tot))

AggregateOrders(orders, products) ==
    OrdersForEach(orders, IdsOf(products),
                  [totalOrders |-> 0, totalSalesAmount |-> 0, pendingOrders |-> 0])

IsOutOfStock(q) == q = 0
IsLowStock(q) == q > 0 /\ q < LOW_STOCK_LIMIT

ComputeStats(products, orders) ==
    LET t == AggregateOrders(orders, products)
        low(p) == IsLowStock(p.stock_quantity)
        rows == 1..Len(products)
    IN  [totalProducts |-> Len(products),
         activeListings |-> Cardinality({ i \in rows : products[i].is_approved }),
         outOfStockProducts |->
             Cardinality({ i \in rows : IsOutOfStock(products[i].stock_quantity) }),
         lowStockProducts |-> SelectSeq(products, low),
         totalOrders |-> t.totalOrders,
         totalSalesAmount |-> t.totalSalesAmount,
         pendingOrders |-> t.pendingOrders]

----------------------------------------------------------------------------
\* Stock classification: the dashboard, the product form's preview, the
\* product card of the home page

\* String(n) for n >= 0: what the number input holds after n is typed
RECURSIVE DigitsOf(_)
DigitsOf(n) == IF n < 10 THEN <<n>> ELSE Append(DigitsOf(n \div 10), n % 10)

\* Number.parseInt(s, 10) on a string of digits; <<>> parses to NaN, which no
\* caller reaches: every use is behind a truthiness or required check
RECURSIVE ParseDigits(_, _)
ParseDigits(s, acc) ==
    IF s = <<>> THEN acc ELSE ParseDigits(Tail(s), 10 * acc + Head(s))
ParseInt(s) == ParseDigits(s, 0)

\* part_000 lines 1694-1702: the dot of the preview
FormDot(stockQuantity) ==
    IF ParseInt(stockQuantity) > PREVIEW_GREEN_ABOVE THEN "bg-green-500"
    ELSE IF ParseInt(stockQuantity) > 0 THEN "bg-yellow-500"
    ELSE "bg-red-500"

\* part_000 lines 1705-1707: the text beside the dot
FormStockText(stockQuantity) ==
    IF ParseInt(stockQuantity) > 0 THEN "in stock" ELSE "Out of stock"

DotClass(dot) ==
    CASE dot = "bg-red-500" -> "out"
      [] dot = "bg-yellow-500" -> "low"
      [] dot = "bg-green-500" -> "ok"

\* part_004 lines 302-307: stockStatus of ProductCard
CardStockStatus(stock_quantity) ==
    IF stock_quantity = 0 THEN "out"
    ELSE IF stock_quantity # 0 /\ stock_quantity < CARD_FEW_LEFT_BELOW THEN "low"
    ELSE "ok"

\* part_000 lines 149-150: the dashboard's two filters
DashboardStockClass(stock_quantity) ==
    IF IsOutOfStock(stock_quantity) THEN "out"
    ELSE IF IsLowStock(stock_quantity) THEN "low"
    ELSE "ok"

\* add-product page line 160: the row written from the form
SavedStockQuantity(stockQuantity) == ParseInt(stockQuantity)

\* the preview renders (it is behind watchedValues.stockQuantity && ...)
RenderFormPreview ==
    /\ stockShown["formPreview"] = "none"
    /\ stockShown' = [stockShown EXCEPT !["formPreview"] =
           IF stockField = <<>> THEN "hidden" ELSE DotClass(FormDot(stockField))]
    /\ UNCHANGED <<dashVars, dbOrders, aggOut, stockField, discountVars, mediaVars, uploadVars, laterVars>>

\* the product is saved (required: the field is not empty) and the dashboard
\* refresh classifies its row
RenderDashboard ==
    /\ stockShown["dashboard"] = "none"
    /\ stockField # <<>>
    /\ stockShown' = [stockShown EXCEPT !["dashboard"] =
           DashboardStockClass(SavedStockQuantity(stockField))]
    /\ UNCHANGED <<dashVars, dbOrders, aggOut, stockField, discountVars, mediaVars, uploadVars, laterVars>>

\* the product is saved and the home page shows its card
RenderProductCard ==
    /\ stockShown["productCard"] = "none"
    /\ stockField # <<>>
    /\ stockShown' = [stockShown EXCEPT !["productCard"] =
           CardStockStatus(SavedStockQuantity(stockField))]
    /\ UNCHANGED <<dashVars, dbOrders, aggOut, stockField, discountVars, mediaVars, uploadVars, laterVars>>

----------------------------------------------------------------------------
\* Number arithmetic: IEEE 754 binary64, round to nearest, ties to even.
\* A finite Number is [kind |-> "finite", neg, bits, exp]: the sign, and the
\* binary numeral bits (most significant first, <<>> for zero) times 2^exp.
\* NaN and the two infinities are the other kinds.

Zeros(n) == [i \in 1..n |-> 0]

Strip(bits) ==
    IF \A i \in 1..Len(bits) : bits[i] = 0 THEN <<>>
    ELSE LET first == CHOOSE i \in 1..Len(bits) :
                          bits[i] = 1 /\ \A j \in 1..(i - 1) : bits[j] = 0
         IN  SubSeq(bits, first, Len(bits))

RECURSIVE IntBits(_)
IntBits(n) == IF n = 0 THEN <<>> ELSE Append(IntBits(n \div 2), n % 2)

RECURSIVE BitsValue(_, _)
BitsValue(bits, acc) ==
    IF bits = <<>> THEN acc ELSE BitsValue(Tail(bits), 2 * acc + Head(bits))

PadTo(bits, n) == Zeros(n - Len(bits)) \o bits

\* the carry into position i: some lower position generates one and every
\* position between passes it on
CarryInto(a, b, i) ==
    \E j \in (i + 1)..Len(a) :
        /\ a[j] = 1 /\ b[j] = 1
        /\ \A k \in (i + 1)..(j - 1) : a[k] + b[k] >= 1

AddBits(a, b) ==
    LET n == (IF Len(a) > Len(b) THEN Len(a) ELSE Len(b)) + 1
        pa == PadTo(a, n)
        pb == PadTo(b, n)
    IN  Strip([i \in 1..n |->
                  (pa[i] + pb[i] + (IF CarryInto(pa, pb, i) THEN 1 ELSE 0)) % 2])

BorrowFrom(a, b, i) ==
    \E j \in (i + 1)..Len(a) :
        /\ a[j] = 0 /\ b[j] = 1
        /\ \A k \in (i + 1)..(j - 1) : a[k] <= b[k]

\* a - b for a >= b
SubBits(a, b) ==
    LET n == Len(a)
        pb == PadTo(b, n)
    IN  Strip([i \in 1..n |->
                  (2 + a[i] - pb[i] - (IF BorrowFrom(a, pb, i) THEN 1 ELSE 0)) % 2])

Finite(neg, bits, exp) == [kind |-> "finite", neg |-> neg, bits |-> bits, exp |-> exp]

NaN == [kind |-> "nan", neg |-> FALSE, bits |-> <<>>, exp |-> 0]

Infinity(neg) == [kind |-> "inf", neg |-> neg, bits |-> <<>>, exp |-> 0]

\* the Number nearest to (+/-) bits * 2^exp (plus something below its last bit
\* when sticky): DOUBLE_PRECISION significant bits, ties to even
RoundToDouble(neg, bits, exp, sticky) ==
    LET b == Strip(bits)
        n == Len(b)
    IN  IF n <= DOUBLE_PRECISION THEN Finite(neg, b, exp)
        ELSE LET keep == SubSeq(b, 1, DOUBLE_PRECISION)
                 guard == b[DOUBLE_PRECISION + 1]
                 below == sticky \/ \E i \in (DOUBLE_PRECISION + 2)..n : b[i] = 1
                 up == guard = 1 /\ (below \/ keep[DOUBLE_PRECISION] = 1)
             IN  Finite(neg, IF up THEN AddBits(keep, <<1>>) ELSE keep,
                        exp + (n - DOUBLE_PRECISION))

\* 2^e mod b
RECURSIVE PowMod(_, _)
PowMod(e, b) ==
    IF e = 0 THEN 1 % b
    ELSE LET h == PowMod(e \div 2, b)
         IN  (h * h * (IF e % 2 = 1 THEN 2 ELSE 1)) % b

\* the first k bits of the binary fraction rem / b, for rem < b: before bit i
\* long division holds the remainder rem * 2^(i-1) mod b
FracBits(rem, b, k) ==
    [i \in 1..k |-> IF 2 * ((rem * PowMod(i - 1, b)) % b) >= b THEN 1 ELSE 0]

\* a / b for integer-valued Numbers a and b >= 0 (|a / b| > 2^-8 or zero)
NumDivide(a, b) ==
    IF b = 0 THEN (IF a = 0 THEN NaN ELSE Infinity(a < 0))
    ELSE LET k == DOUBLE_PRECISION + 11
             m == IF a < 0 THEN -a ELSE a
         IN  RoundToDouble(a < 0, IntBits(m \div b) \o FracBits(m % b, b, k), -k,
                           ((m % b) * PowMod(k, b)) % b # 0)

\* 1 - x for x >= 0
NumOneMinus(x) ==
    IF x.kind = "nan" THEN NaN
    ELSE IF x.kind = "inf" THEN Infinity(~x.neg)
    ELSE LET e == IF x.exp < 0 THEN x.exp ELSE 0
             one == <<1>> \o Zeros(-e)
             xb == IF x.bits = <<>> THEN <<>> ELSE x.bits \o Zeros(x.exp - e)
         IN  IF Len(xb) < Len(one)
             THEN RoundToDouble(FALSE, SubBits(one, xb), e, FALSE)
             ELSE LET diff == SubBits(xb, one)
                  IN  RoundToDouble(diff # <<>>, diff, e, FALSE)

RECURSIVE MulLoop(_, _, _)
MulLoop(bits, kbits, acc) ==
    IF kbits = <<>> THEN acc
    ELSE LET doubled == IF acc = <<>> THEN <<>> ELSE Append(acc, 0)
         IN  MulLoop(bits, Tail(kbits),
                     IF Head(kbits) = 1 THEN AddBits(doubled, bits) ELSE doubled)

\* x * k for an integer k > 0
NumTimes(x, k) ==
    IF x.kind # "finite" THEN x
    ELSE RoundToDouble(x.neg, MulLoop(x.bits, IntBits(k), <<>>), x.exp, FALSE)

\* Math.round(x) as JSX prints it: the nearest integer, a tie going up
\* (towards +Infinity); -0 prints as 0
MathRound(x) ==
    IF x.kind = "nan" THEN [kind |-> "NaN", value |-> 0]
    ELSE IF x.kind = "inf"
    THEN [kind |-> IF x.neg THEN "-Infinity" ELSE "Infinity", value |-> 0]
    ELSE LET f == -x.exp
             sum == AddBits(x.bits, <<1>> \o Zeros(f - 1))
             whole == IF x.bits = <<>> THEN 0
                      ELSE IF f <= 0 THEN BitsValue(x.bits \o Zeros(-f), 0)
                      ELSE IF Len(sum) <= f THEN 0
                      ELSE BitsValue(SubSeq(sum, 1, Len(sum) - f), 0)
             tie == /\ x.bits # <<>> /\ f > 0 /\ Len(sum) > f
                    /\ \A i \in (Len(sum) - f + 1)..Len(sum) : sum[i] = 0
         IN  [kind |-> "number",
              value |-> IF x.neg THEN -(IF tie THEN whole - 1 ELSE whole) ELSE whole]

----------------------------------------------------------------------------
\* The discount badge.  The form keeps both prices as strings and parses them
\* where it displays; a saved product carries them as Numbers.

\* Number.parseFloat of a non-empty string of digits: a whole Number
ParseFloat(str) == ParseDigits(str, 0)

\* part_000 lines 1119-1124 and 1680-1685:
\* Math.round((1 - parseFloat(discountPrice) / parseFloat(originalPrice)) * 100)
OneMinusRatioPercent(originalPrice, discountPrice) ==
    IF originalPrice = <<>> \/ discountPrice = <<>>
    THEN MathRound(NaN)
    ELSE MathRound(NumTimes(NumOneMinus(
             NumDivide(ParseFloat(discountPrice), ParseFloat(originalPrice))), 100))

\* part_004 lines 298-300
DiscountPercent(original_price, discount_price) ==
    IF original_price # 0
    THEN MathRound(NumTimes(
             NumDivide(original_price - discount_price, original_price), 100))
    ELSE [kind |-> "number", value |-> 0]

Hidden == [kind |-> "hidden", value |-> 0]

\* part_000 line 1114: shown when both strings are non-empty
FormPricingBadge(f) ==
    IF f.originalPrice # <<>> /\ f.discountPrice # <<>>
    THEN OneMinusRatioPercent(f.originalPrice, f.discountPrice)
    ELSE Hidden

\* part_000 lines 1676-1689: shown when the original price is non-empty and
\* differs, as a string, from the selling price; an empty selling price is "0"
FormPreviewBadge(f) ==
    IF f.originalPrice # <<>> /\ f.originalPrice # f.discountPrice
    THEN OneMinusRatioPercent(f.originalPrice,
             IF f.discountPrice # <<>> THEN f.discountPrice ELSE <<0>>)
    ELSE Hidden

\* what the form saves: Number.parseFloat of each price, both being required
SavedPrice(str) == ParseFloat(str)

\* part_004 lines 298-300 and 331: the badge is shown when discountPercent > 0
ProductCardBadge(f) ==
    LET discountPercent == DiscountPercent(SavedPrice(f.originalPrice),
                                           SavedPrice(f.discountPrice))
    IN  IF discountPercent.value > 0 THEN discountPercent ELSE Hidden

DiscountUnchanged == UNCHANGED <<dashVars, dbOrders, aggOut, stockVars, priceFields, mediaVars, uploadVars, laterVars>>

RenderFormPricing ==
    /\ discountShown["formPricing"].kind = "none"
    /\ discountShown' = [discountShown EXCEPT !["formPricing"] = FormPricingBadge(priceFields)]
    /\ DiscountUnchanged

RenderFormPreviewPrice ==
    /\ discountShown["formPreview"].kind = "none"
    /\ discountShown' = [discountShown EXCEPT !["formPreview"] = FormPreviewBadge(priceFields)]
    /\ DiscountUnchanged

\* a product reaches a card only once saved, which the form's required-field
\* validation allows only with both prices filled in
RenderProductCardPrice ==
    /\ discountShown["productCard"].kind = "none"
    /\ priceFields.originalPrice # <<>> /\ priceFields.discountPrice # <<>>
    /\ discountShown' = [discountShown EXCEPT !["productCard"] = ProductCardBadge(priceFields)]
    /\ DiscountUnchanged

----------------------------------------------------------------------------
\* fetchStats: the cache check and the awaited calls

InFlight(c) == pc[c] \in {"session", "companies", "products", "orders"}

FullTrace ==
    << "call:getSession", "ret:getSession", "call:companies", "ret:companies",
       "call:products", "ret:products", "call:orders", "ret:orders" >>

IsTableRead(e) == e \in {"call:companies", "call:products", "call:orders"}

Reads(c) == SelectSeq(evlog[c], IsTableRead)

DashUnchangedBackend == UNCHANGED <<dbOrders, aggOut, stockVars, discountVars, mediaVars, uploadVars, laterVars>>

\* line 99 with a wrong comparison: a fresh cache is refetched, a stale one served
IsFreshInverted(f, st, lf, t) ==
    ~f /\ st # <<>> /\ lf # NoTimestamp /\ t - lf > CACHE_DURATION

\* line 99 with <= for <: a cache exactly CACHE_DURATION old is still served
IsFreshInclusive(f, st, lf, t) ==
    ~f /\ st # <<>> /\ lf # NoTimestamp /\ t - lf <= CACHE_DURATION

\* line 99
IsFresh(f, st, lf, t) ==
    ~f /\ st # <<>> /\ lf # NoTimestamp /\ t - lf < CACHE_DURATION

\* lines 95-112: the synchronous part, up to the first await
FetchBegin(c, f, served) ==
    /\ pc[c] \in {"idle", "done"}
    /\ force' = [force EXCEPT ![c] = f]
    /\ startMiss' = [startMiss EXCEPT ![c] =
           stats = <<>> \/ lastFetched = NoTimestamp \/ now - lastFetched >= CACHE_DURATION]
    /\ productsData' = [productsData EXCEPT ![c] = <<>>]
    /\ IF served
       THEN /\ loading' = FALSE
            /\ pc' = [pc EXCEPT ![c] = "done"]
            /\ outcome' = [outcome EXCEPT ![c] = "cached"]
            /\ evlog' = [evlog EXCEPT ![c] = <<>>]
            /\ overlap' = [overlap EXCEPT ![c] = \E e \in Calls \ {c} : InFlight(e)]
            /\ UNCHANGED error
       ELSE /\ IF stats = <<>>
               THEN loading' = TRUE /\ error' = Null
               ELSE UNCHANGED <<loading, error>>
            /\ pc' = [pc EXCEPT ![c] = "session"]
            /\ outcome' = [outcome EXCEPT ![c] = "running"]
            /\ evlog' = [evlog EXCEPT ![c] = <<"call:getSession">>]
            /\ overlap' = [d \in Calls |->
                             IF \E e \in Calls \ {c} : InFlight(e)
                             THEN IF d = c \/ InFlight(d) THEN TRUE ELSE overlap[d]
                             ELSE IF d = c THEN FALSE ELSE overlap[d]]
    /\ UNCHANGED <<stats, lastFetched, now>>
    /\ DashUnchangedBackend

\* fetchStats that returns at once while another invocation is in flight
FetchStartSingleFlight(c, f) ==
    FetchBegin(c, f, IsFresh(f, stats, lastFetched, now)
                        \/ \E e \in Calls \ {c} : InFlight(e))

\* lines 94-112: fetchStats(force) is called
FetchStart(c, f) ==
    FetchBegin(c, f, IsFresh(f, stats, lastFetched, now))

\* an early return that also drops the cached value
FailWithClearsStats(c, ev, msg) ==
    /\ error' = msg
    /\ loading' = FALSE
    /\ stats' = <<>>
    /\ lastFetched' = NoTimestamp
    /\ pc' = [pc EXCEPT ![c] = "done"]
    /\ outcome' = [outcome EXCEPT ![c] = "failed"]
    /\ evlog' = [evlog EXCEPT ![c] = Append(@, ev)]
    /\ productsData' = [productsData EXCEPT ![c] = <<>>]
    /\ UNCHANGED <<now, force, startMiss, overlap>>
    /\ DashUnchangedBackend

\* an early return or the catch block: set({ error: msg, loading: false });
\* the invocation's locals go out of scope
FailWith(c, ev, msg) ==
    /\ error' = msg
    /\ loading' = FALSE
    /\ pc' = [pc EXCEPT ![c] = "done"]
    /\ outcome' = [outcome EXCEPT ![c] = "failed"]
    /\ evlog' = [evlog EXCEPT ![c] = Append(@, ev)]
    /\ productsData' = [productsData EXCEPT ![c] = <<>>]
    /\ UNCHANGED <<stats, lastFetched, now, force, startMiss, overlap>>
    /\ DashUnchangedBackend

\* line 260: error.message || "An unexpected error occurred"
CatchMessage(message) ==
    IF message = "" THEN "An unexpected error occurred" ELSE message

ThrownMessages == {"", "Failed to fetch"}

Proceed(c, ev, nextCall, nextPc) ==
    /\ pc' = [pc EXCEPT ![c] = nextPc]
    /\ evlog' = [evlog EXCEPT ![c] = Append(Append(@, ev), nextCall)]
    /\ UNCHANGED <<stats, loading, error, lastFetched, now, force, outcome,
                   startMiss, overlap>>
    /\ DashUnchangedBackend

\* lines 109-117: supabase.auth.getSession() resolves
SessionReturn(c) ==
    /\ pc[c] = "session"
    /\ \/ Proceed(c, "ret:getSession", "call:companies", "companies")
          /\ UNCHANGED productsData
       \/ FailWith(c, "ret:getSession", "Authentication required.")
       \/ \E m \in ThrownMessages : FailWith(c, "ret:getSession", CatchMessage(m))

\* lines 122-133: the companies row of the user
CompaniesReturn(c) ==
    /\ pc[c] = "companies"
    /\ \/ Proceed(c, "ret:companies", "call:products", "products")
          /\ UNCHANGED productsData
       \/ FailWith(c, "ret:companies", "Company not found or not approved.")
       \/ \E m \in ThrownMessages : FailWith(c, "ret:companies", CatchMessage(m))

\* lines 136-153: the company's products
ProductsReturn(c) ==
    /\ pc[c] = "products"
    /\ \/ Proceed(c, "ret:products", "call:orders", "orders")
          /\ productsData' = [productsData EXCEPT ![c] = CompanyProducts]
       \/ FailWith(c, "ret:products", "Failed to load product data.")
       \/ \E m \in ThrownMessages : FailWith(c, "ret:products", CatchMessage(m))

\* lines 238-256: set({ stats, loading: false, error: null, lastFetched: Date.now() })
StoreStats(c, value) ==
    /\ stats' = <<value>>
    /\ loading' = FALSE
    /\ error' = Null
    /\ lastFetched' = now
    /\ pc' = [pc EXCEPT ![c] = "done"]
    /\ outcome' = [outcome EXCEPT ![c] = "ok"]
    /\ evlog' = [evlog EXCEPT ![c] = Append(@, "ret:orders")]
    /\ productsData' = [productsData EXCEPT ![c] = <<>>]
    /\ UNCHANGED <<now, force, startMiss, overlap>>
    /\ DashUnchangedBackend

\* lines 156-256: the orders table, the aggregation and the store update
OrdersReturn(c) ==
    /\ pc[c] = "orders"
    /\ \/ StoreStats(c, ComputeStats(productsData[c], dbOrders))
       \/ FailWith(c, "ret:orders", "Failed to load order data.")
       \/ \E m \in ThrownMessages : FailWith(c, "ret:orders", CatchMessage(m))

\* time passes
Tick ==
    /\ now < MaxClock
    /\ now' = now + 1
    /\ UNCHANGED <<stats, loading, error, lastFetched, pc, force, evlog, outcome,
                   productsData, startMiss, overlap>>
    /\ DashUnchangedBackend

\* somebody places an order: the orders table changes
OrdersTableChanges ==
    /\ \E t \in DashOrderTables \ {dbOrders} : dbOrders' = t
    /\ UNCHANGED <<dashVars, aggOut, stockVars, discountVars, mediaVars, uploadVars, laterVars>>

Init ==
    /\ InitStore
    /\ dbOrders \in DashOrderTables
    /\ aggOut = <<>>
    /\ InitStockIdle
    /\ InitOthersIdle
    /\ InitLaterIdle

Next ==
    \/ \E c \in Calls, f \in BOOLEAN : FetchStart(c, f)
    \/ \E c \in Calls : SessionReturn(c)
    \/ \E c \in Calls : CompaniesReturn(c)
    \/ \E c \in Calls : ProductsReturn(c)
    \/ \E c \in Calls : OrdersReturn(c)
    \/ Tick
    \/ OrdersTableChanges

Spec == Init /\ [][Next]_vars

----------------------------------------------------------------------------
\* The dashboard store: claims

TableReads == << "call:companies", "call:products", "call:orders" >>

IsPrefix(s, t) == Len(s) <= Len(t) /\ SubSeq(t, 1, Len(s)) = s

\* invocation c is not running in this state, and this step starts it
\* (nothing else changes the record of an invocation that is not running)
Starts(c) ==
    /\ ~InFlight(c)
    /\ <<pc[c], force[c], evlog[c], outcome[c], startMiss[c]>>
         # <<pc'[c], force'[c], evlog'[c], outcome'[c], startMiss'[c]>>

CacheIsFresh ==
    stats # <<>> /\ lastFetched # NoTimestamp /\ now - lastFetched < CACHE_DURATION

\* C1: a call fetchStats(force=false) made while statistics are cached and the
\* cache is less than 5 minutes old makes no backend call at all (its log of
\* calls is empty and it is finished) and leaves the cached statistics and
\* their timestamp unchanged.
C1_FreshCacheServed ==
    [][ \A c \in Calls :
          (Starts(c) /\ ~force'[c] /\ CacheIsFresh)
             => /\ evlog' = [evlog EXCEPT ![c] = <<>>]
                /\ pc'[c] = "done"
                /\ stats' = stats
                /\ lastFetched' = lastFetched ]_vars

C1_Witness ==
    \E c \in Calls :
        /\ outcome[c] = "cached" /\ ~force[c] /\ evlog[c] = <<>>
        /\ stats # <<>> /\ now > lastFetched

\* C2: when a backend call of a refresh fails, the refresh ends there: it
\* issues no further read, the cached statistics and their timestamp stay as
\* they were, and error is set to a non-empty string; a failed refresh issues
\* nothing afterwards.
C2_FailureAborts ==
    [][ \A c \in Calls :
          /\ (InFlight(c) /\ outcome'[c] = "failed")
                => /\ stats' = stats
                   /\ lastFetched' = lastFetched
                   /\ error' \notin {Null, ""}
                   /\ pc'[c] = "done"
                   /\ Reads(c)' = Reads(c)
          /\ (outcome[c] = "failed" /\ outcome'[c] = "failed")
                => evlog'[c] = evlog[c] ]_vars

C2_Witness ==
    \E c \in Calls :
        /\ outcome[c] = "failed" /\ pc[c] = "done"
        /\ Reads(c) = << "call:companies", "call:products" >>
        /\ stats # <<>> /\ lastFetched # NoTimestamp
        /\ error = "Failed to load product data."

\* C3: concurrent refreshes are not deduplicated: a non-forced call started
\* on a cache miss while another call is in flight is never answered without
\* fetching, and when it succeeds it has issued all three reads itself.
C3_NoSingleFlight ==
    \A c \in Calls :
        (~force[c] /\ startMiss[c] /\ overlap[c])
            => /\ outcome[c] # "cached"
               /\ outcome[c] = "ok" => Reads(c) = TableReads

C3_Witness ==
    \E c \in Calls : \E d \in Calls \ {c} :
        /\ ~force[c] /\ ~force[d]
        /\ startMiss[c] /\ startMiss[d]
        /\ overlap[c] /\ overlap[d]
        /\ outcome[c] = "ok" /\ outcome[d] = "ok"
        /\ Reads(c) = TableReads /\ Reads(d) = TableReads

\* C4: a call with the force flag set, or with no statistics cached, or with a
\* cache 5 minutes old or older, goes to the backend; the calls of one refresh
\* are made one after another, each after the previous returned, in the order
\* session, profile (companies), products, orders; a refresh that succeeds has
\* issued exactly those three reads, replaces the cached statistics by the
\* ones it computed and sets the timestamp to the time of completion.
C4_RefreshSequence ==
    /\ [](\A c \in Calls : IsPrefix(evlog[c], FullTrace))
    /\ [][ \A c \in Calls :
             /\ (Starts(c) /\ (force'[c] \/ stats = <<>>
                                 \/ now - lastFetched >= CACHE_DURATION))
                   => /\ pc'[c] = "session"
                      /\ evlog'[c] = << "call:getSession" >>
             /\ (InFlight(c) /\ outcome'[c] = "ok")
                   => /\ evlog'[c] = FullTrace
                      /\ Reads(c)' = TableReads
                      /\ stats' = << ComputeStats(productsData[c], dbOrders) >>
                      /\ lastFetched' = now' ]_vars

C4_Witness ==
    \E c \in Calls :
        /\ outcome[c] = "ok" /\ ~force[c] /\ startMiss[c]
        /\ evlog[c] = FullTrace
        /\ lastFetched = now /\ now > CACHE_DURATION
        /\ stats = << ComputeStats(CompanyProducts, dbOrders) >>
        /\ stats[1].totalOrders = 2

----------------------------------------------------------------------------
\* The aggregation of fetchStats over every small orders table

\* lines 166-218 on the rows the orders read returned
AggregateRun ==
    /\ aggOut = <<>>
    /\ aggOut' = << ComputeStats(CompanyProducts, dbOrders) >>
    /\ UNCHANGED <<dashVars, dbOrders, stockVars, discountVars, mediaVars, uploadVars, laterVars>>

\* an order row is inserted (checkout), before the dashboard is opened
OrderInserted ==
    /\ aggOut = <<>>
    /\ Len(dbOrders) < MaxOrders
    /\ \E row \in OrderRows : dbOrders' = Append(dbOrders, row)
    /\ UNCHANGED <<dashVars, aggOut, stockVars, discountVars, mediaVars, uploadVars, laterVars>>

InitAggregate ==
    /\ InitStore
    /\ dbOrders = <<>>
    /\ aggOut = <<>>
    /\ InitStockIdle
    /\ InitOthersIdle
    /\ InitLaterIdle

NextAggregate == OrderInserted \/ AggregateRun

SpecAggregate == InitAggregate /\ [][NextAggregate]_vars

\* the example of the specification: three orders, two of them with company
\* A's products (200 x 1 and 150 x 2), one with none
ExampleOrders ==
    << [status |-> "confirmed", order_items |-> <<ItemA1>>],
       [status |-> "confirmed", order_items |-> <<ItemB1>>],
       [status |-> "confirmed", order_items |-> <<ItemA2>>] >>

CompanyItemPositions(orders, ids) ==
    UNION { { <<i, j>> : j \in { k \in 1..Len(orders[i].order_items) :
                                    orders[i].order_items[k].product_id \in ids } } :
            i \in 1..Len(orders) }

RECURSIVE SumAmounts(_, _)
SumAmounts(orders, positions) ==
    IF positions = {} THEN 0
    ELSE LET p == CHOOSE q \in positions : TRUE
             it == orders[p[1]].order_items[p[2]]
         IN  it.price_at_purchase * it.quantity + SumAmounts(orders, positions \ {p})

\* C5: totalOrders is the number of orders with at least one item of a product
\* of the company, totalSalesAmount is the sum of price_at_purchase * quantity
\* over those items only; an order without such an item adds nothing; the
\* example gives totalOrders = 2 and totalSalesAmount = 500.
C5_CompanyTotals ==
    aggOut # <<>> =>
        LET ids == IdsOf(CompanyProducts)
            pos == CompanyItemPositions(dbOrders, ids)
        IN  /\ aggOut[1].totalOrders = Cardinality({ p[1] : p \in pos })
            /\ aggOut[1].totalSalesAmount = SumAmounts(dbOrders, pos)
            /\ dbOrders = ExampleOrders =>
                  aggOut[1].totalOrders = 2 /\ aggOut[1].totalSalesAmount = 500

C5_Witness ==
    /\ aggOut # <<>>
    /\ dbOrders = ExampleOrders
    /\ aggOut[1].totalOrders = 2
    /\ aggOut[1].totalSalesAmount = 500

----------------------------------------------------------------------------
\* Stock classification over every small stock quantity

InitStock ==
    /\ InitStore
    /\ dbOrders = <<>>
    /\ aggOut = <<>>
    /\ stockField \in { DigitsOf(n) : n \in 0..MaxStock } \cup { <<>> }
    /\ stockShown = [s \in StockSites |-> "none"]
    /\ InitOthersIdle
    /\ InitLaterIdle

NextStock == RenderFormPreview \/ RenderDashboard \/ RenderProductCard

SpecStock == InitStock /\ [][NextStock]_vars

\* C6: at every site that classifies a product's stock, a stock of 0 is out
\* of stock, a stock strictly between 0 and 10 is low stock, and a stock of
\* 10 or more is neither.
C6_StockClasses ==
    \A site \in StockSites :
        stockShown[site] \notin {"none", "hidden"} =>
            LET q == ParseInt(stockField)
            IN  /\ q = 0 => stockShown[site] = "out"
                /\ (0 < q /\ q < 10) => stockShown[site] = "low"
                /\ q >= 10 => stockShown[site] = "ok"

----------------------------------------------------------------------------
\* The discount badge on its own: any pair of prices the form accepts (each
\* empty or a whole number from 0 to MaxPrice), rendered at each site.

PriceStrings == { DigitsOf(n) : n \in 0..MaxPrice } \cup { <<>> }

InitDiscount ==
    /\ InitStore
    /\ dbOrders = <<>>
    /\ aggOut = <<>>
    /\ InitStockIdle
    /\ priceFields \in [originalPrice : PriceStrings, discountPrice : PriceStrings]
    /\ discountShown = [s \in DiscountSites |-> NotShown]
    /\ InitMediaIdle
    /\ InitUploadIdle
    /\ InitLaterIdle

NextDiscount == RenderFormPricing \/ RenderFormPreviewPrice \/ RenderProductCardPrice

SpecDiscount == InitDiscount /\ [][NextDiscount]_vars

\* C7: every discount percentage that is displayed equals
\* round((1 - discount_price / original_price) * 100), and it is not negative
\* when discount_price <= original_price.
C7_DisplayedDiscount ==
    \A site \in DiscountSites :
        discountShown[site].kind \notin {"none", "hidden"} =>
            LET o == priceFields.originalPrice
                d == IF priceFields.discountPrice # <<>>
                     THEN priceFields.discountPrice ELSE <<0>>
            IN  /\ discountShown[site] = OneMinusRatioPercent(o, d)
                /\ (discountShown[site].kind = "number" /\ ParseFloat(d) <= ParseFloat(o))
                       => discountShown[site].value >= 0

----------------------------------------------------------------------------
\* getPublicUrlFromPath.  A path is a string over PathChars; the storage
\* client's getPublicUrl(p) is kept as the value [kind "publicUrl", path p],
\* which is never an empty string.

PathChars == {"x", "%", "2", "5"}

HexDigits == {"2", "5"}

HexValue(c) == IF c = "2" THEN 2 ELSE 5

\* the character of a decoded octet; every octet two digits of HexDigits can
\* spell is below 0x80, a character of its own
OctetChar(octet) ==
    CASE octet = 34 -> "\""
      [] octet = 37 -> "%"
      [] octet = 82 -> "R"
      [] octet = 85 -> "U"

\* decodeURIComponent: each %XX becomes the character of octet XX; a % not
\* followed by two hexadecimal digits is a URIError
RECURSIVE DecodeFrom(_, _)
DecodeFrom(rest, out) ==
    IF rest = <<>> THEN [ok |-> TRUE, out |-> out]
    ELSE IF Head(rest) # "%" THEN DecodeFrom(Tail(rest), Append(out, Head(rest)))
    ELSE IF Len(rest) >= 3 /\ rest[2] \in HexDigits /\ rest[3] \in HexDigits
    THEN DecodeFrom(SubSeq(rest, 4, Len(rest)),
                    Append(out, OctetChar(16 * HexValue(rest[2]) + HexValue(rest[3]))))
    ELSE [ok |-> FALSE, out |-> <<>>]

DecodeURIComponent(str) == DecodeFrom(str, <<>>)

GetPublicUrl(path) == [kind |-> "publicUrl", path |-> path]

\* "/placeholder.svg"
Placeholder == [kind |-> "placeholder", path |-> <<>>]

\* ""
EmptyString == [kind |-> "empty", path |-> <<>>]

URIError == [kind |-> "URIError", path |-> <<>>]

\* addfav/page.tsx lines 25-37
GetPublicUrlFromPathAddfav(path) ==
    IF path = <<>> THEN Placeholder
    ELSE LET decodedPath == DecodeURIComponent(path)
         IN  IF decodedPath.ok THEN GetPublicUrl(decodedPath.out) ELSE URIError

\* part_003 lines 27-39
GetPublicUrlFromPathPart003(path) ==
    IF path = <<>> THEN Placeholder
    ELSE LET decodedPath == DecodeURIComponent(path)
         IN  IF decodedPath.ok THEN GetPublicUrl(decodedPath.out) ELSE URIError

\* edit-product/[id]/page.tsx lines 40-51
GetPublicUrlFromPathEditProduct(path) ==
    IF path = <<>> THEN EmptyString ELSE GetPublicUrl(path)

\* part_004 lines 30-39
GetPublicUrlFromPathProductCard(path) ==
    IF path = <<>> THEN Placeholder ELSE GetPublicUrl(path)

MediaUnchanged ==
    UNCHANGED <<dashVars, dbOrders, aggOut, stockVars, discountVars, mediaPath, uploadVars, laterVars>>

CallAddfav ==
    /\ mediaResult["addfav"].kind = "none"
    /\ mediaResult' = [mediaResult EXCEPT !["addfav"] = GetPublicUrlFromPathAddfav(mediaPath)]
    /\ MediaUnchanged

CallPart003 ==
    /\ mediaResult["part_003"].kind = "none"
    /\ mediaResult' = [mediaResult EXCEPT !["part_003"] = GetPublicUrlFromPathPart003(mediaPath)]
    /\ MediaUnchanged

CallEditProduct ==
    /\ mediaResult["editProduct"].kind = "none"
    /\ mediaResult' = [mediaResult EXCEPT !["editProduct"] =
                           GetPublicUrlFromPathEditProduct(mediaPath)]
    /\ MediaUnchanged

CallProductCard ==
    /\ mediaResult["productCard"].kind = "none"
    /\ mediaResult' = [mediaResult EXCEPT !["productCard"] =
                           GetPublicUrlFromPathProductCard(mediaPath)]
    /\ MediaUnchanged

InitMedia ==
    /\ InitStore
    /\ dbOrders = <<>>
    /\ aggOut = <<>>
    /\ InitStockIdle
    /\ InitDiscountIdle
    /\ InitUploadIdle
    /\ InitLaterIdle
    /\ mediaPath \in SeqsUpTo(PathChars, MaxPathLen)
    /\ mediaResult = [c \in MediaCopies |-> NotCalled]

NextMedia == CallAddfav \/ CallPart003 \/ CallEditProduct \/ CallProductCard

SpecMedia == InitMedia /\ [][NextMedia]_vars

\* C8: for every input the helper returns a value and never fails: an
\* undefined or empty path yields the placeholder string, any other path the
\* public URL the storage client builds for the decoded path.
C8_HelperTotal ==
    \A c \in MediaCopies :
        mediaResult[c].kind # "none" =>
            /\ mediaResult[c].kind # "URIError"
            /\ mediaPath = <<>> => mediaResult[c] = Placeholder
            /\ (mediaPath # <<>> /\ DecodeURIComponent(mediaPath).ok) =>
                   mediaResult[c] = GetPublicUrl(DecodeURIComponent(mediaPath).out)

\* the path after n rounds of decoding
RECURSIVE DecodedTimes(_, _)
DecodedTimes(path, n) ==
    IF n = 0 THEN path ELSE DecodedTimes(DecodeURIComponent(path).out, n - 1)

\* C9: the path handed to the storage client is the stored path with its
\* percent-escapes decoded exactly once - not the stored path itself, and not
\* the stored path decoded twice.
C9_DecodedOnce ==
    \A c \in MediaCopies :
        (mediaResult[c].kind = "publicUrl" /\ DecodeURIComponent(mediaPath).ok) =>
            mediaResult[c].path = DecodedTimes(mediaPath, 1)

----------------------------------------------------------------------------
\* uploadFile.  A file name is a sequence of UTF-16 code units, which is what
\* String.prototype.replace with a regular expression without the u flag
\* works on.

\* the code units file names are drawn from:
\* space - . / 0 9 : A Z _ a z {
NameUnits == {32, 45, 46, 47, 48, 57, 58, 65, 90, 95, 97, 122, 123}

\* the class with its last member, the hyphen, left out
InClassWithoutHyphen(u) ==
    \/ 97 <= u /\ u <= 122
    \/ 65 <= u /\ u <= 90
    \/ 48 <= u /\ u <= 57
    \/ u = 46

\* a code unit that /[^a-zA-Z0-9.-]/ does not match
InClass(u) ==
    \/ 97 <= u /\ u <= 122
    \/ 65 <= u /\ u <= 90
    \/ 48 <= u /\ u <= 57
    \/ u = 46
    \/ u = 45

\* file.name.replace(/[^a-zA-Z0-9.-]/g, "_")
SanitizedFileName(name) ==
    [i \in 1..Len(name) |-> IF InClass(name[i]) THEN name[i] ELSE 95]

Uuids == {<<117>>, <<118>>}

Folder == <<112>>

CompanyIdText(id) == <<48 + id>>

\* `${folder}/${companyId}/${sanitizedFileName}-${crypto.randomUUID()}`
UniqueFileName(folder, id, sanitizedFileName, uuid) ==
    folder \o <<47>> \o CompanyIdText(id) \o <<47>> \o sanitizedFileName \o <<45>> \o uuid

UploadUnchanged ==
    UNCHANGED <<dashVars, dbOrders, aggOut, stockVars, discountVars, mediaVars,
                fileName, companyId, laterVars>>

UploadOutcome(uuid, stored) ==
    LET sanitizedFileName == SanitizedFileName(fileName)
    IN  [kind |-> IF stored THEN "returned" ELSE "storageError",
         sanitizedFileName |-> sanitizedFileName,
         uniqueFileName |-> IF stored
                            THEN UniqueFileName(Folder, companyId, sanitizedFileName, uuid)
                            ELSE <<>>]

\* add-product/page.tsx lines 100-116
UploadFileAddProduct ==
    /\ uploadResult.kind = "none"
    /\ \E uuid \in Uuids, stored \in BOOLEAN :
           uploadResult' =
               IF companyId = NoCompany
               THEN [kind |-> "companyIdMissing", sanitizedFileName |-> <<>>,
                     uniqueFileName |-> <<>>]
               ELSE UploadOutcome(uuid, stored)
    /\ UploadUnchanged

\* edit-product/[id]/page.tsx lines 199-211; the caller passes the id of the
\* company it loaded
UploadFileEditProduct ==
    /\ uploadResult.kind = "none"
    /\ companyId # NoCompany
    /\ \E uuid \in Uuids, stored \in BOOLEAN :
           uploadResult' = UploadOutcome(uuid, stored)
    /\ UploadUnchanged

InitUpload ==
    /\ InitStore
    /\ dbOrders = <<>>
    /\ aggOut = <<>>
    /\ InitStockIdle
    /\ InitDiscountIdle
    /\ InitMediaIdle
    /\ InitLaterIdle
    /\ fileName \in SeqsUpTo(NameUnits, MaxNameLen)
    /\ companyId \in {NoCompany, 1}
    /\ uploadResult = NotUploaded

NextUpload == UploadFileAddProduct \/ UploadFileEditProduct

SpecUpload == InitUpload /\ [][NextUpload]_vars

AsciiLetters == (65..90) \cup (97..122)

AsciiDigits == 48..57

\* C10: sanitization replaces every code unit that is not an ASCII letter, a
\* digit, '.' or '-' with '_' and leaves every other one unchanged and in
\* place: the result is as long as the name and is made of letters, digits,
\* '.', '-' and '_' only.
C10_Sanitized ==
    uploadResult.kind \in {"returned", "storageError"} =>
        LET s == uploadResult.sanitizedFileName
            kept == AsciiLetters \cup AsciiDigits \cup {46, 45}
        IN  /\ Len(s) = Len(fileName)
            /\ \A i \in 1..Len(fileName) :
                   s[i] = IF fileName[i] \in kept THEN fileName[i] ELSE 95
            /\ \A i \in 1..Len(s) : s[i] \in kept \cup {95}

\* a name holding both kinds of code unit went through uploadFile
C10_Witness ==
    /\ uploadResult.kind = "returned"
    /\ \E i \in 1..Len(fileName) : fileName[i] = 45
    /\ \E i \in 1..Len(fileName) : fileName[i] = 32
    /\ \E i \in 1..Len(fileName) : fileName[i] \in AsciiLetters

----------------------------------------------------------------------------
\* user_profiles.addresses.  An address is kept as [id, isDefault]; the list
\* is written whole by every writer.  An editor takes its copy of the list
\* when it opens (the userProfile prop of AddressFormModal, fetchUserProfile
\* of CheckoutDetailsModal) or inside its handler (handleCompleteProfile).

InitEarlierIdle ==
    /\ InitStore
    /\ dbOrders = <<>>
    /\ aggOut = <<>>
    /\ InitStockIdle
    /\ InitOthersIdle

DefaultCount(addresses) ==
    Cardinality({ i \in 1..Len(addresses) : addresses[i].isDefault })

AddressIds(addresses) == { addresses[i].id : i \in 1..Len(addresses) }

NewAddress(id, isDefault) == [id |-> id, isDefault |-> isDefault]

\* addresses.map(addr => ({ ...addr, isDefault: false }))
ClearDefaults(addresses) ==
    [i \in 1..Len(addresses) |-> [addresses[i] EXCEPT !.isDefault = FALSE]]

\* part_000 lines 1865-1868: find(addr => addr.isDefault) || addresses[0] || null
AddressToEdit(addresses) ==
    IF \E i \in 1..Len(addresses) : addresses[i].isDefault
    THEN addresses[CHOOSE i \in 1..Len(addresses) :
                       /\ addresses[i].isDefault
                       /\ \A j \in 1..(i - 1) : ~addresses[j].isDefault].id
    ELSE IF Len(addresses) > 0 THEN addresses[1].id
    ELSE NoAddress

\* part_000 lines 1918-1949
ModalUpdatedAddresses(currentAddresses, editingAddressId, newId) ==
    IF editingAddressId # NoAddress
    THEN [i \in 1..Len(currentAddresses) |->
             [currentAddresses[i] EXCEPT
                  !.isDefault = (currentAddresses[i].id = editingAddressId)]]
    ELSE Append(ClearDefaults(currentAddresses), NewAddress(newId, TRUE))

\* part_000 lines 2272-2288
ModalV2UpdatedAddresses(currentAddresses, newId) ==
    Append(ClearDefaults(currentAddresses), NewAddress(newId, TRUE))

\* checkout-details-modal.tsx lines 196-226
CheckoutUpdatedAddresses(userAddresses, selectedNew, newId) ==
    IF selectedNew
    THEN Append(ClearDefaults(userAddresses), NewAddress(newId, TRUE))
    ELSE userAddresses

\* the variant that makes the first address of a list the default one
CompleteProfileKeepsADefault(currentAddresses, withAddress, isDefaultAddress, newId) ==
    IF withAddress
    THEN Append(ClearDefaults(currentAddresses), NewAddress(newId, TRUE))
    ELSE currentAddresses

\* part_001 lines 255-289
CompleteProfileAddresses(currentAddresses, withAddress, isDefaultAddress, newId) ==
    IF withAddress
    THEN Append(IF isDefaultAddress THEN ClearDefaults(currentAddresses)
                ELSE currentAddresses,
                NewAddress(newId, isDefaultAddress))
    ELSE currentAddresses

\* user-registration-form.tsx lines 120-141
RegisterAddresses(withAddress, isDefaultAddress, newId) ==
    IF withAddress THEN <<NewAddress(newId, isDefaultAddress)>> ELSE <<>>

\* the list the editor of a tab is about to write
UpdatedAddresses(tab, newId) ==
    CASE tab.op = "modal" ->
             ModalUpdatedAddresses(tab.snapshot, AddressToEdit(tab.snapshot), newId)
      [] tab.op = "modalV2" -> ModalV2UpdatedAddresses(tab.snapshot, newId)
      [] tab.op = "checkout" ->
             CheckoutUpdatedAddresses(tab.snapshot, tab.selectedNew, newId)
      [] tab.op = "completeProfile" ->
             CompleteProfileAddresses(tab.snapshot, tab.withAddress,
                                      tab.isDefaultAddress, newId)

\* a backend that appended to what it holds
StoreAddressesMerging(stored, written) == stored \o written

\* what the backend does with .update({ addresses }).eq("id", ...)
StoreAddresses(stored, written) == written

AddrUnchangedOthers == UNCHANGED <<earlierVars, feedVars, checkoutVars, publishVars, newerVars>>

\* handleRegister: the profile row is created with the form's address, if any
RegisterUser ==
    /\ ~registered
    /\ \E withAddress \in BOOLEAN, isDefaultAddress \in BOOLEAN :
           profileAddresses' = RegisterAddresses(withAddress, isDefaultAddress, addrNextId)
    /\ registered' = TRUE
    /\ addrNextId' = addrNextId + 1
    /\ UNCHANGED <<addrTab, addrWrites, addrOverlapped, addrLast, addrLost>>
    /\ AddrUnchangedOthers

OtherTabBusy(t) == \E u \in AddrTabs \ {t} : addrTab[u].pc # "idle"

\* an AddressFormModal or the CheckoutDetailsModal opens with the list as it
\* is stored now; in checkout "new" is the only choice when there is none
OpenEditor(t) ==
    /\ registered
    /\ addrTab[t].pc = "idle"
    /\ addrTab[t].edits < MaxEdits
    /\ \E op \in {"modal", "modalV2", "checkout"}, selectedNew \in BOOLEAN :
           /\ (op = "checkout" /\ profileAddresses = <<>>) => selectedNew
           /\ op # "checkout" => ~selectedNew
           /\ addrTab' = [addrTab EXCEPT ![t] =
                  [@ EXCEPT !.pc = "read", !.op = op, !.selectedNew = selectedNew,
                            !.withAddress = FALSE, !.isDefaultAddress = FALSE,
                            !.snapshot = profileAddresses, !.readAt = addrWrites]]
    /\ addrOverlapped' = (addrOverlapped \/ OtherTabBusy(t))
    /\ UNCHANGED <<profileAddresses, registered, addrNextId, addrWrites, addrLast, addrLost>>
    /\ AddrUnchangedOthers

\* handleCompleteProfile is submitted, with or without a complete address
SubmitCompleteProfile(t) ==
    /\ registered
    /\ addrTab[t].pc = "idle"
    /\ addrTab[t].edits < MaxEdits
    /\ \E withAddress \in BOOLEAN, isDefaultAddress \in BOOLEAN :
           addrTab' = [addrTab EXCEPT ![t] =
               [@ EXCEPT !.pc = "submitted", !.op = "completeProfile",
                         !.selectedNew = FALSE, !.withAddress = withAddress,
                         !.isDefaultAddress = isDefaultAddress,
                         !.snapshot = <<>>, !.readAt = 0]]
    /\ addrOverlapped' = (addrOverlapped \/ OtherTabBusy(t))
    /\ UNCHANGED <<profileAddresses, registered, addrNextId, addrWrites, addrLast, addrLost>>
    /\ AddrUnchangedOthers

\* part_001 lines 243-253: select("addresses") returns
ReadCurrentProfile(t) ==
    /\ addrTab[t].pc = "submitted"
    /\ addrTab' = [addrTab EXCEPT ![t] =
           [@ EXCEPT !.pc = "read", !.snapshot = profileAddresses, !.readAt = addrWrites]]
    /\ UNCHANGED <<profileAddresses, registered, addrNextId, addrWrites, addrOverlapped,
                   addrLast, addrLost>>
    /\ AddrUnchangedOthers

TabAfter(tab) == [TabIdle EXCEPT !.edits = tab.edits + 1]

\* the update of user_profiles returns without an error
WriteAccepted(t) ==
    /\ addrTab[t].pc = "read"
    /\ LET written == UpdatedAddresses(addrTab[t], addrNextId)
       IN  /\ profileAddresses' = StoreAddresses(profileAddresses, written)
           /\ addrLost' = addrLost \cup
                  (AddressIds(profileAddresses) \ AddressIds(profileAddresses'))
    /\ addrLast' = [tab |-> t, op |-> addrTab[t].op,
                    stale |-> addrTab[t].readAt < addrWrites,
                    defaultsBefore |-> DefaultCount(profileAddresses)]
    /\ addrWrites' = addrWrites + 1
    /\ addrNextId' = addrNextId + 1
    /\ addrTab' = [addrTab EXCEPT ![t] = TabAfter(@)]
    /\ UNCHANGED <<registered, addrOverlapped>>
    /\ AddrUnchangedOthers

\* the update returns an error: the modals show a toast, the checkout does
\* not look at it; the stored list stays
WriteRejected(t) ==
    /\ addrTab[t].pc = "read"
    /\ addrTab' = [addrTab EXCEPT ![t] = TabAfter(@)]
    /\ UNCHANGED <<profileAddresses, registered, addrNextId, addrWrites, addrOverlapped,
                   addrLast, addrLost>>
    /\ AddrUnchangedOthers

InitAddresses ==
    /\ InitEarlierIdle
    /\ InitAddrIdle
    /\ InitFeedIdle
    /\ InitCheckoutIdle
    /\ InitPublishIdle
    /\ InitNewerIdle

NextAddresses ==
    \/ RegisterUser
    \/ \E t \in AddrTabs :
           \/ OpenEditor(t)
           \/ SubmitCompleteProfile(t)
           \/ ReadCurrentProfile(t)
           \/ WriteAccepted(t)
           \/ WriteRejected(t)

SpecAddresses == InitAddresses /\ [][NextAddresses]_vars

AllTabsIdle == \A t \in AddrTabs : addrTab[t].pc = "idle"

\* C11: with no concurrent edits, once an operation that writes the address
\* list has completed, a non-empty stored list has exactly one address with
\* the default flag.
C11_OneDefault ==
    (registered /\ ~addrOverlapped /\ AllTabsIdle /\ profileAddresses # <<>>) =>
        DefaultCount(profileAddresses) = 1

\* the step in which the backend accepts the write of tab t
WriteAcceptedStep(t) ==
    /\ addrTab[t].pc = "read"
    /\ addrTab'[t].pc = "idle"
    /\ addrWrites' = addrWrites + 1

\* C12: two tabs editing the addresses concurrently can break the rule of one
\* default address.  A profile completion that adds a non-default address to
\* the list it read, in which nothing was default, stores a list with no
\* default whatever the other tab has stored meanwhile.
C12_ConcurrentEditsBreakRule ==
    [][\A t \in AddrTabs :
           (/\ WriteAcceptedStep(t)
            /\ addrTab[t].op = "completeProfile"
            /\ addrTab[t].withAddress /\ ~addrTab[t].isDefaultAddress
            /\ DefaultCount(addrTab[t].snapshot) = 0) =>
               /\ profileAddresses' # <<>>
               /\ DefaultCount(profileAddresses') = 0]_vars

\* the other tab stored a list with its one default after this tab had read;
\* this tab's write then left a non-empty list with none
C12_Witness ==
    /\ addrLast.stale
    /\ addrLast.defaultsBefore = 1
    /\ AllTabsIdle
    /\ profileAddresses # <<>>
    /\ DefaultCount(profileAddresses) # 1

\* C13: a write carries no lock and no version token.  It is accepted as
\* computed from the writer's own read, however old: the stored list becomes
\* the writer's list, and what another tab added since that read is gone.
C13_LastWriteWins ==
    [][\A t \in AddrTabs :
           WriteAcceptedStep(t) =>
               /\ profileAddresses' = UpdatedAddresses(addrTab[t], addrNextId)
               /\ \A id \in AddressIds(profileAddresses) \ AddressIds(addrTab[t].snapshot) :
                      id \notin AddressIds(profileAddresses')]_vars

\* both tabs read the same list, both wrote, and the later write removed the
\* address the earlier one had added
C13_Witness ==
    /\ addrLast.stale
    /\ addrWrites >= 2
    /\ addrLost # {}
    /\ \A id \in addrLost : id \notin AddressIds(profileAddresses)

----------------------------------------------------------------------------
\* The pages with a postgres_changes listener: CartPage (part_003),
\* FavoritesPage (addfav/page.tsx) and MyOrdersPage (orders/page.tsx).  A tab
\* shows one of them.  The page starts its fetch when it mounts, and its
\* listener runs once for every notification of the table it watches.  A
\* fetch is suspended at getSession and then at its select; several can be
\* in flight at once, and inFlight counts them by where they are.

\* the cases of getStatusBadgeClass
StatusValues ==
    {"pending", "confirmed", "payment_accepted", "preparing", "shipped",
     "delivered", "cancelled"}

\* the order of the user, and an order of somebody else in the same table
UserOrder == "o1"

OrderIds == {"o1", "o2"}

\* the table a page subscribes to
Watched(p) == IF p = "orders" THEN "orders" ELSE "cart_items"

\* payload.new of a notification, as far as a listener can read it
Payload(table, id, status) == [table |-> table, id |-> id, status |-> status]

NoneInFlight(pg) == pg.inFlight.session = 0 /\ pg.inFlight.select = 0

\* a listener that starts no fetch while one is in flight
FetchStartedUnlessBusy(pg) ==
    IF NoneInFlight(pg)
    THEN [pg EXCEPT !.loading = TRUE, !.error = Null,
                    !.started = @ + 1, !.inFlight.session = @ + 1]
    ELSE pg

\* fetchCartItems, fetchFavorites and fetchOrders up to their first await:
\* setLoading(true), setError(null), getSession() is issued
FetchStarted(pg) ==
    [pg EXCEPT !.loading = TRUE, !.error = Null,
               !.started = @ + 1, !.inFlight.session = @ + 1]

\* part_003 lines 158-161 and addfav/page.tsx lines 149-151: the callback
\* takes no argument
OnCartItemsChange(pg, payload) == FetchStarted(pg)

\* orders/page.tsx lines 207-214
OnOrderUpdate(pg, payload) ==
    LET prevOrders == pg.orders
        updatedStatus == payload.status
        updatedId == payload.id
    IN  [pg EXCEPT !.orders =
            [i \in 1..Len(prevOrders) |->
                IF prevOrders[i].id = updatedId
                THEN [prevOrders[i] EXCEPT !.status = updatedStatus]
                ELSE prevOrders[i]]]

Listener(p, pg, payload) ==
    IF p = "orders" THEN OnOrderUpdate(pg, payload) ELSE OnCartItemsChange(pg, payload)

FeedUnchangedOthers == UNCHANGED <<earlierVars, addrVars, checkoutVars, publishVars, newerVars>>

\* the page mounts: its effect calls the fetch and subscribes
Mount(p) ==
    /\ mounted = "none"
    /\ mounted' = p
    /\ page' = FetchStarted(PageInitial)
    /\ UNCHANGED <<cartItemsTable, ordersStatus, channel, changes>>
    /\ FeedUnchangedOthers

Subscribed(table) == mounted \in Pages /\ Watched(mounted) = table

\* a row of cart_items is inserted, updated or deleted, by this tab or another
CartItemsChanged ==
    /\ changes < MaxNotifications
    /\ changes' = changes + 1
    /\ cartItemsTable' = cartItemsTable + 1
    /\ channel' = IF Subscribed("cart_items")
                  THEN Append(channel, Payload("cart_items", "none", "none"))
                  ELSE channel
    /\ UNCHANGED <<ordersStatus, mounted, page>>
    /\ FeedUnchangedOthers

\* a row of orders is updated by whoever processes orders; the subscription
\* has no filter, so updates of other users' orders are announced as well
OrderStatusUpdated(id, status) ==
    /\ changes < MaxNotifications
    /\ changes' = changes + 1
    /\ ordersStatus' = IF id = UserOrder THEN status ELSE ordersStatus
    /\ channel' = IF Subscribed("orders")
                  THEN Append(channel, Payload("orders", id, status))
                  ELSE channel
    /\ UNCHANGED <<cartItemsTable, mounted, page>>
    /\ FeedUnchangedOthers

\* onAuthStateChange: with a session the page fetches again, without one it
\* leaves for /login
AuthStateChanged(hasSession) ==
    /\ mounted \in Pages
    /\ changes < MaxNotifications
    /\ changes' = changes + 1
    /\ page' = IF hasSession THEN FetchStarted(page)
               ELSE [page EXCEPT !.redirected = TRUE]
    /\ UNCHANGED <<cartItemsTable, ordersStatus, mounted, channel>>
    /\ FeedUnchangedOthers

\* the realtime client hands the next notification to the page's listener
Deliver ==
    /\ mounted \in Pages
    /\ channel # <<>>
    /\ page' = [Listener(mounted, page, Head(channel)) EXCEPT !.delivered = @ + 1]
    /\ channel' = Tail(channel)
    /\ UNCHANGED <<cartItemsTable, ordersStatus, mounted, changes>>
    /\ FeedUnchangedOthers

\* getSession returns to one of the fetches waiting for it.  Without a
\* session the fetch shows a toast, calls router.push("/login") and returns
\* (part_003 lines 79-86, addfav lines 71-79, orders lines 120-124).
SessionReturns(hasSession) ==
    /\ mounted \in Pages
    /\ page.inFlight.session > 0
    /\ page' = IF hasSession
               THEN [page EXCEPT !.inFlight.session = @ - 1, !.inFlight.select = @ + 1]
               ELSE [page EXCEPT !.inFlight.session = @ - 1,
                                 !.redirected = TRUE, !.failed = TRUE]
    /\ UNCHANGED <<cartItemsTable, ordersStatus, mounted, channel, changes>>
    /\ FeedUnchangedOthers

\* what a fetch leaves in the page when its select has returned.  The
\* favorites fetch also reads cart_items, whose error it does not look at;
\* the orders fetch also reads products, whose error it only logs.  Both
\* reads are taken in this one step.
Fetched(p, pg, selectError, cartRead) ==
    LET done == [pg EXCEPT !.inFlight.select = @ - 1, !.loading = FALSE]
    IN  CASE p = "cart" ->
                 IF selectError
                 THEN [done EXCEPT !.error = "Failed to load cart items. Please try again.",
                                   !.cartItems = <<>>, !.failed = TRUE]
                 ELSE [done EXCEPT !.cartItems = <<cartItemsTable>>]
          [] p = "favorites" ->
                 IF selectError
                 THEN [done EXCEPT !.error = "Failed to load favorites. Please try again.",
                                   !.favorites = <<>>, !.failed = TRUE]
                 ELSE [done EXCEPT !.favorites =
                          <<[isInCart |-> IF cartRead THEN <<cartItemsTable>> ELSE <<>>]>>]
          [] p = "orders" ->
                 IF selectError
                 THEN [done EXCEPT !.error = "Failed to load orders. Please try again.",
                                   !.orders = <<>>, !.failed = TRUE]
                 ELSE [done EXCEPT !.orders =
                          <<[id |-> UserOrder, status |-> ordersStatus]>>]

SelectReturns(selectError, cartRead) ==
    /\ mounted \in Pages
    /\ page.inFlight.select > 0
    /\ mounted # "favorites" => cartRead
    /\ page' = Fetched(mounted, page, selectError, cartRead)
    /\ UNCHANGED <<cartItemsTable, ordersStatus, mounted, channel, changes>>
    /\ FeedUnchangedOthers

\* the navigation to /login completes: the page unmounts, its channel is
\* removed and its state is gone
NavigatedAway ==
    /\ mounted \in Pages
    /\ page.redirected
    /\ mounted' = "login"
    /\ page' = PageInitial
    /\ channel' = <<>>
    /\ UNCHANGED <<cartItemsTable, ordersStatus, changes>>
    /\ FeedUnchangedOthers

InitRealtime ==
    /\ InitEarlierIdle
    /\ InitAddrIdle
    /\ InitFeedIdle
    /\ InitCheckoutIdle
    /\ InitPublishIdle
    /\ InitNewerIdle

NextRealtime ==
    \/ \E p \in Pages : Mount(p)
    \/ CartItemsChanged
    \/ \E id \in OrderIds, status \in StatusValues : OrderStatusUpdated(id, status)
    \/ \E hasSession \in BOOLEAN : AuthStateChanged(hasSession)
    \/ Deliver
    \/ \E hasSession \in BOOLEAN : SessionReturns(hasSession)
    \/ \E selectError \in BOOLEAN, cartRead \in BOOLEAN : SelectReturns(selectError, cartRead)
    \/ NavigatedAway

SpecRealtime == InitRealtime /\ [][NextRealtime]_vars

\* the step in which the listener of the mounted page runs
DeliverStep == mounted \in Pages /\ page'.delivered = page.delivered + 1

\* C14: every notification of cart_items starts one full fetch of the cart
\* page's or the favorites page's list and its payload is not merged into the
\* list, so a burst of N notifications starts N fetches, none coalesced or
\* skipped; a notification of orders starts no fetch: the orders page writes
\* the payload's status into the order of its list that has the payload's id.
C14_NotificationHandling ==
    [][DeliverStep =>
          IF mounted = "orders"
          THEN /\ page'.started = page.started
               /\ page'.inFlight = page.inFlight
               /\ Len(page'.orders) = Len(page.orders)
               /\ \A i \in 1..Len(page.orders) :
                      /\ page'.orders[i].id = page.orders[i].id
                      /\ page'.orders[i].status =
                             IF page.orders[i].id = Head(channel).id
                             THEN Head(channel).status
                             ELSE page.orders[i].status
          ELSE /\ page'.started = page.started + 1
               /\ page'.inFlight.session = page.inFlight.session + 1
               /\ page'.cartItems = page.cartItems
               /\ page'.favorites = page.favorites]_vars

\* C14 as stated: whatever the page, a notification starts a fetch and
\* leaves the local list as it is.
C14_AlwaysRefetch ==
    [][DeliverStep =>
          /\ page'.started = page.started + 1
          /\ page'.cartItems = page.cartItems
          /\ page'.favorites = page.favorites
          /\ page'.orders = page.orders]_vars

\* a burst: the cart page has been handed every notification while the fetch
\* of its mount was still in flight, and has one more fetch in flight for each
C14_Witness ==
    /\ mounted = "cart"
    /\ page.delivered = MaxNotifications
    /\ page.started = MaxNotifications + 1
    /\ page.inFlight.session + page.inFlight.select = MaxNotifications + 1

\* C16: a failure is scoped to the operation that was started: once a failed
\* cart fetch has ended and no other is in flight, the page's loading flag is
\* cleared.
C16_FlagClearedAfterFailure ==
    (mounted = "cart" /\ page.failed /\ NoneInFlight(page)) => ~page.loading

\* the vocabulary and the progression of an order's status
OrderStatusVocabulary ==
    {"pending", "confirmed", "preparing", "shipped", "delivered", "cancelled"}

StatusProgression == <<"pending", "confirmed", "preparing", "shipped", "delivered">>

StatusRank(status) == CHOOSE i \in 1..Len(StatusProgression) : StatusProgression[i] = status

MovesForward(from, to) ==
    \/ to = from
    \/ to = "cancelled" /\ from \in OrderStatusVocabulary
    \/ /\ from \in OrderStatusVocabulary \ {"cancelled"}
       /\ to \in OrderStatusVocabulary \ {"cancelled"}
       /\ StatusRank(from) < StatusRank(to)

\* C19: the status the orders page holds for an order is always one of
\* pending, confirmed, preparing, shipped, delivered, cancelled, and it only
\* moves forward through pending, confirmed, preparing, shipped, delivered, or
\* to cancelled.
C19_StatusProgression ==
    [][(mounted = "orders" /\ mounted' = "orders") =>
          \A i \in 1..Len(page'.orders) :
              /\ page'.orders[i].status \in OrderStatusVocabulary
              /\ i \in 1..Len(page.orders) =>
                     MovesForward(page.orders[i].status, page'.orders[i].status)]_vars

----------------------------------------------------------------------------
\* CheckoutDetailsModal (checkout-details-modal.tsx).  The payment widget is
\* the RazorpayPayment component, rendered while showRazorpay is true; it
\* reports once per rendering, success through onSuccess or failure through
\* onFailure.  The profile is user_profiles of the address section.

\* handleFormSubmit without its second check
FormErrorWithoutAddressCheck(selectedAddressId, fieldsComplete) ==
    IF selectedAddressId.kind = "new" /\ ~fieldsComplete
    THEN "Please fill in all mandatory fields (Name, Phone, Address Line 1, City, State, Pincode)."
    ELSE Null

\* checkout-details-modal.tsx lines 168-180: the error handleFormSubmit
\* sets, Null when it goes on to open the widget
FormError(selectedAddressId, fieldsComplete) ==
    IF selectedAddressId.kind = "new" /\ ~fieldsComplete
    THEN "Please fill in all mandatory fields (Name, Phone, Address Line 1, City, State, Pincode)."
    ELSE IF selectedAddressId.kind = "null"
    THEN "Please select or add a delivery address."
    ELSE Null

\* lines 110-111 and 117-118: the selection fetchUserProfile makes
InitialSelection(addresses) ==
    IF Len(addresses) > 0 THEN Existing(AddressToEdit(addresses)) ELSE NewSelection

\* lines 196-228: the id of currentShippingAddress, NoAddress for undefined
CurrentShippingAddress(userAddresses, selectedAddressId, newId) ==
    IF selectedAddressId.kind = "new" THEN newId
    ELSE IF selectedAddressId.kind = "existing"
            /\ selectedAddressId.id \in AddressIds(userAddresses)
    THEN selectedAddressId.id
    ELSE NoAddress

\* lines 249-273: orderData
OrderData(shippingAddress) == [status |-> "confirmed", shipping_address |-> shippingAddress]

Request(call, failed) == [call |-> call, failed |-> failed]

CheckoutUnchangedOthers ==
    UNCHANGED <<earlierVars, feedVars, publishVars, newerVars, registered, addrTab, addrWrites,
                addrOverlapped, addrLast, addrLost>>

\* isOpen becomes true: the modal shows its form and fetchUserProfile starts
OpenCheckout ==
    /\ checkout.pc = "closed"
    /\ checkout.opened < MaxPayments
    /\ checkout' = [checkout EXCEPT !.pc = "form", !.profileFetched = FALSE]
    /\ UNCHANGED <<orderRows, requests, profileAddresses, addrNextId>>
    /\ CheckoutUnchangedOthers

\* lines 91-121: fetchUserProfile has its answer.  Without a session or a
\* profile row nothing is set.
ProfileFetched(hasSession) ==
    /\ checkout.pc \in {"form", "widget"}
    /\ ~checkout.profileFetched
    /\ checkout' =
           IF hasSession /\ registered
           THEN [checkout EXCEPT !.profileFetched = TRUE,
                                 !.userAddresses = IF Len(profileAddresses) > 0
                                                   THEN profileAddresses ELSE @,
                                 !.selectedAddressId = InitialSelection(profileAddresses)]
           ELSE [checkout EXCEPT !.profileFetched = TRUE]
    /\ UNCHANGED <<orderRows, requests, profileAddresses, addrNextId>>
    /\ CheckoutUnchangedOthers

\* lines 295-296 and 528: the user picks one of the listed addresses or "new"
HandleAddressSelectionChange(value) ==
    /\ checkout.pc = "form"
    /\ value \in {NewSelection} \cup { Existing(id) : id \in AddressIds(checkout.userAddresses) }
    /\ value # checkout.selectedAddressId
    /\ checkout' = [checkout EXCEPT !.selectedAddressId = value]
    /\ UNCHANGED <<orderRows, requests, profileAddresses, addrNextId>>
    /\ CheckoutUnchangedOthers

\* lines 164-187
HandleFormSubmit(fieldsComplete) ==
    /\ checkout.pc = "form"
    /\ checkout.opened < MaxPayments
    /\ LET err == FormError(checkout.selectedAddressId, fieldsComplete)
       IN  checkout' =
               IF err # Null
               THEN [checkout EXCEPT !.error = err]
               ELSE [checkout EXCEPT !.error = Null, !.pc = "widget",
                                     !.showRazorpay = TRUE, !.validated = fieldsComplete,
                                     !.report = "none", !.opened = @ + 1]
    /\ UNCHANGED <<orderRows, requests, profileAddresses, addrNextId>>
    /\ CheckoutUnchangedOthers

\* lines 290-293: the widget calls onFailure
HandlePaymentFailure ==
    /\ checkout.pc = "widget"
    /\ checkout' = [checkout EXCEPT !.pc = "form", !.showRazorpay = FALSE,
                                    !.report = "failure", !.failures = @ + 1]
    /\ UNCHANGED <<orderRows, requests, profileAddresses, addrNextId>>
    /\ CheckoutUnchangedOthers

\* lines 189-191: the widget calls onSuccess; getSession is issued
HandlePaymentSuccess ==
    /\ checkout.pc = "widget"
    /\ checkout' = [checkout EXCEPT !.pc = "session", !.report = "success"]
    /\ requests' = <<Request("getSession", FALSE)>>
    /\ UNCHANGED <<orderRows, profileAddresses, addrNextId>>
    /\ CheckoutUnchangedOthers

\* lines 193-237: getSession has returned.  Without a user the handler
\* returns, the widget still rendered; without a shipping address it throws
\* into its catch; otherwise the update of user_profiles is issued.
PaymentSessionReturned(hasUser) ==
    /\ checkout.pc = "session"
    /\ LET shipping == CurrentShippingAddress(checkout.userAddresses,
                                              checkout.selectedAddressId, addrNextId)
       IN  IF ~hasUser
           THEN /\ checkout' = [checkout EXCEPT !.pc = "returned"]
                /\ requests' = [requests EXCEPT ![Len(requests)].failed = TRUE]
           ELSE IF shipping = NoAddress
           THEN /\ checkout' = [checkout EXCEPT !.pc = "form", !.showRazorpay = FALSE]
                /\ UNCHANGED requests
           ELSE /\ checkout' = [checkout EXCEPT !.pc = "update"]
                /\ requests' = Append(requests, Request("user_profiles.update", FALSE))
    /\ UNCHANGED <<orderRows, profileAddresses, addrNextId>>
    /\ CheckoutUnchangedOthers

\* lines 233-275: the update has returned; its result is not read, and the
\* insert into orders is issued
ProfileUpdateReturned(updateError) ==
    /\ checkout.pc = "update"
    /\ profileAddresses' =
           IF updateError THEN profileAddresses
           ELSE StoreAddresses(profileAddresses,
                    CheckoutUpdatedAddresses(checkout.userAddresses,
                        checkout.selectedAddressId.kind = "new", addrNextId))
    /\ requests' = Append([requests EXCEPT ![Len(requests)].failed = updateError],
                          Request("orders.insert", FALSE))
    /\ checkout' = [checkout EXCEPT !.pc = "insert"]
    /\ UNCHANGED <<orderRows, addrNextId>>
    /\ CheckoutUnchangedOthers

\* lines 275-287: the insert has returned
OrderInsertReturned(orderError) ==
    /\ checkout.pc = "insert"
    /\ LET shipping == CurrentShippingAddress(checkout.userAddresses,
                                              checkout.selectedAddressId, addrNextId)
       IN  orderRows' = IF orderError THEN orderRows
                        ELSE Append(orderRows, OrderData(shipping))
    /\ requests' = [requests EXCEPT ![Len(requests)].failed = orderError]
    /\ checkout' = IF orderError
                   THEN [checkout EXCEPT !.pc = "form", !.showRazorpay = FALSE]
                   ELSE [checkout EXCEPT !.pc = "closed", !.showRazorpay = FALSE]
    /\ addrNextId' = addrNextId + 1
    /\ UNCHANGED profileAddresses
    /\ CheckoutUnchangedOthers

InitCheckout ==
    /\ InitEarlierIdle
    /\ InitAddrIdle
    /\ InitFeedIdle
    /\ InitCheckoutIdle
    /\ InitPublishIdle
    /\ InitNewerIdle

NextCheckout ==
    \/ RegisterUser
    \/ OpenCheckout
    \/ \E hasSession \in BOOLEAN : ProfileFetched(hasSession)
    \/ \E value \in {NewSelection} \cup { Existing(id) : id \in 1..(2 * MaxPayments) } :
           HandleAddressSelectionChange(value)
    \/ \E fieldsComplete \in BOOLEAN : HandleFormSubmit(fieldsComplete)
    \/ HandlePaymentFailure
    \/ HandlePaymentSuccess
    \/ \E hasUser \in BOOLEAN : PaymentSessionReturned(hasUser)
    \/ \E updateError \in BOOLEAN : ProfileUpdateReturned(updateError)
    \/ \E orderError \in BOOLEAN : OrderInsertReturned(orderError)

SpecCheckout == InitCheckout /\ [][NextCheckout]_vars

\* C15: nothing is retried and a failure ends the operation: once a backend
\* call of handlePaymentSuccess has failed, that run of the handler issues no
\* further backend request.
C15_FailureEndsOperation ==
    [][Len(requests') > Len(requests) =>
          \A i \in 1..Len(requests) : ~requests'[i].failed]_vars

\* C20: the payment widget is opened only by a submit of the form that passes
\* validation with an address selected; an order row is written only after
\* the widget has reported success; when the widget reports failure, no
\* order row is written, the profile is not changed and no backend request
\* is made.
C20_PaymentGatesOrder ==
    [][/\ (~checkout.showRazorpay /\ checkout'.showRazorpay) =>
              /\ checkout.pc = "form"
              /\ checkout.selectedAddressId.kind \in {"new", "existing"}
              /\ checkout.selectedAddressId.kind = "new" => checkout'.validated
              /\ checkout'.error = Null
       /\ orderRows' # orderRows =>
              /\ checkout.report = "success"
              /\ checkout.showRazorpay
              /\ Len(orderRows') = Len(orderRows) + 1
       /\ Len(requests') > Len(requests) => checkout'.report = "success"
       /\ checkout'.report = "failure" =>
              /\ orderRows' = orderRows
              /\ requests' = requests
              /\ (registered' = registered => profileAddresses' = profileAddresses)]_vars

\* the widget reported a failure, was opened again by a second submit and
\* reported success; there is one order row, for the address that was selected
C20_Witness ==
    /\ checkout.failures >= 1
    /\ checkout.report = "success"
    /\ checkout.pc = "closed"
    /\ Len(orderRows) = 1
    /\ orderRows[1].shipping_address # NoAddress

\* the step in which a run of handlePaymentSuccess ends
PaymentSuccessEnds ==
    /\ checkout.pc \in {"session", "update", "insert"}
    /\ checkout'.pc \in {"form", "returned", "closed"}

\* C30: every payment-success report from the widget leads to exactly one
\* order row: the run of handlePaymentSuccess it starts ends with one more
\* row in orders than there was.
C30_SuccessStoresOneOrder ==
    [][PaymentSuccessEnds => Len(orderRows') = Len(orderRows) + 1]_vars

----------------------------------------------------------------------------
\* Publishing.  AddProductPage (add-product/page.tsx) lets a vendor insert a
\* product when the store's companyStatus says the company is approved; the
\* store keeps companyStatus in localStorage (part_000 lines 264-274), so a
\* later visit finds it there.  Home (part_004) and ProductPage (part_005)
\* select the rows with is_approved true.  The two flags are set by whoever
\* reviews companies and products.

\* the row checkAuthAndCompanyStatus reads from companies
CompanyData == [id |-> 1, is_approved |-> companyApproved]

\* add-product/page.tsx lines 147-176: productData
ProductData(company) == [company_id |-> company.id, is_approved |-> FALSE, reviews |-> 0]

\* part_004 lines 500-501 and part_005 lines 41-42: .eq("is_approved", true)
ApprovedRows == { i \in 1..Len(productsTable) : productsTable[i].is_approved }

PublishUnchangedOthers == UNCHANGED <<earlierVars, addrVars, feedVars, checkoutVars, newerVars>>

\* add-product/page.tsx lines 38 and 42-47: the page mounts.  With a
\* companyStatus in the store it is ready at once; otherwise getSession is
\* issued.
MountAddProduct ==
    /\ addProduct.pc = "unmounted"
    /\ addProduct.saves < MaxProducts
    /\ addProduct' =
           IF companyStatus # <<>>
           THEN [addProduct EXCEPT !.pc = "ready", !.pageLoading = FALSE, !.fromCache = TRUE]
           ELSE [addProduct EXCEPT !.pc = "session", !.pageLoading = TRUE, !.fromCache = FALSE]
    /\ UNCHANGED <<companyApproved, companyStatus, productsTable, homeProducts, productShown>>
    /\ PublishUnchangedOthers

\* lines 49-62: getSession has returned; without a session the page leaves
\* for /login
AddProductSessionReturned(hasSession) ==
    /\ addProduct.pc = "session"
    /\ addProduct' = IF hasSession THEN [addProduct EXCEPT !.pc = "company"]
                     ELSE AddProductUnmounted
    /\ UNCHANGED <<companyApproved, companyStatus, productsTable, homeProducts, productShown>>
    /\ PublishUnchangedOthers

\* lines 64-94: the select on companies has returned
CompanyReturned(found) ==
    /\ addProduct.pc = "company"
    /\ IF found /\ CompanyData.is_approved
       THEN /\ companyStatus' = <<CompanyData>>
            /\ addProduct' = [addProduct EXCEPT !.pc = "ready", !.pageLoading = FALSE]
       ELSE /\ companyStatus' = companyStatus
            /\ addProduct' = AddProductUnmounted
    /\ UNCHANGED <<companyApproved, productsTable, homeProducts, productShown>>
    /\ PublishUnchangedOthers

\* lines 124-132: the message handleSaveProduct refuses with, <<>> when it
\* goes on
SaveRefused(status, imageCount) ==
    IF status = <<>> \/ ~status[1].is_approved
    THEN <<"Company not approved or ID missing. Cannot add product.">>
    ELSE IF imageCount < 1
    THEN <<"Please upload at least 1 product image.">>
    ELSE <<>>

\* lines 118-138: handleSaveProduct up to its first await
HandleSaveProduct(imageCount) ==
    /\ addProduct.pc = "ready"
    /\ LET refused == SaveRefused(companyStatus, imageCount)
       IN  addProduct' =
               IF refused # <<>>
               THEN [addProduct EXCEPT !.submissionError = refused]
               ELSE [addProduct EXCEPT !.pc = "upload", !.isSaving = TRUE,
                                       !.submissionError = <<>>]
    /\ UNCHANGED <<companyApproved, companyStatus, productsTable, homeProducts, productShown>>
    /\ PublishUnchangedOthers

\* lines 138-145 and 191-196: the uploads have returned
UploadsReturned(storageError) ==
    /\ addProduct.pc = "upload"
    /\ addProduct' =
           IF storageError
           THEN [addProduct EXCEPT !.pc = "ready", !.isSaving = FALSE,
                                   !.submissionError = <<"Error adding product. Please try again.">>]
           ELSE [addProduct EXCEPT !.pc = "insert"]
    /\ UNCHANGED <<companyApproved, companyStatus, productsTable, homeProducts, productShown>>
    /\ PublishUnchangedOthers

\* lines 178-196: the insert into products has returned; after a success the
\* page leaves for /company/dashboard/my-products
ProductInsertReturned(dbError) ==
    /\ addProduct.pc = "insert"
    /\ productsTable' = IF dbError THEN productsTable
                        ELSE Append(productsTable, ProductData(companyStatus[1]))
    /\ addProduct' =
           IF dbError
           THEN [addProduct EXCEPT !.pc = "ready", !.isSaving = FALSE,
                                   !.submissionError = <<"Error adding product. Please try again.">>]
           ELSE [AddProductUnmounted EXCEPT !.saves = addProduct.saves + 1]
    /\ UNCHANGED <<companyApproved, companyStatus, homeProducts, productShown>>
    /\ PublishUnchangedOthers

\* the vendor goes to another page; the store keeps companyStatus
LeaveAddProduct ==
    /\ addProduct.pc = "ready"
    /\ ~addProduct.isSaving
    /\ addProduct' = [AddProductUnmounted EXCEPT !.saves = addProduct.saves]
    /\ UNCHANGED <<companyApproved, companyStatus, productsTable, homeProducts, productShown>>
    /\ PublishUnchangedOthers

\* an administrator sets companies.is_approved
CompanyReviewed(approved) ==
    /\ companyApproved # approved
    /\ companyApproved' = approved
    /\ UNCHANGED <<companyStatus, addProduct, productsTable, homeProducts, productShown>>
    /\ PublishUnchangedOthers

\* an administrator approves a product
ProductApproved(i) ==
    /\ i \in 1..Len(productsTable)
    /\ ~productsTable[i].is_approved
    /\ productsTable[i].reviews < MaxAdminChanges
    /\ productsTable' = [productsTable EXCEPT ![i].is_approved = TRUE, ![i].reviews = @ + 1]
    /\ UNCHANGED <<companyApproved, companyStatus, addProduct, homeProducts, productShown>>
    /\ PublishUnchangedOthers

\* part_002 lines 514-521: the vendor edits a product; the update stores
\* is_approved false
ProductEdited(i) ==
    /\ i \in 1..Len(productsTable)
    /\ productsTable[i].is_approved
    /\ productsTable' = [productsTable EXCEPT ![i].is_approved = FALSE]
    /\ UNCHANGED <<companyApproved, companyStatus, addProduct, homeProducts, productShown>>
    /\ PublishUnchangedOthers

\* part_004 lines 490-524: the select of fetchProducts has returned
FetchProductsReturned(selectError) ==
    /\ homeProducts' = IF selectError THEN {} ELSE ApprovedRows
    /\ homeProducts' # homeProducts
    /\ UNCHANGED <<companyApproved, companyStatus, addProduct, productsTable, productShown>>
    /\ PublishUnchangedOthers

\* part_005 lines 28-50: ProductPage is rendered for an id
ProductPageRendered(id) ==
    /\ id \in 1..Len(productsTable)
    /\ productShown' = IF id \in ApprovedRows
                       THEN [kind |-> "product", id |-> id]
                       ELSE [kind |-> "notFound", id |-> id]
    /\ productShown' # productShown
    /\ UNCHANGED <<companyApproved, companyStatus, addProduct, productsTable, homeProducts>>
    /\ PublishUnchangedOthers

InitPublish ==
    /\ InitEarlierIdle
    /\ InitAddrIdle
    /\ InitFeedIdle
    /\ InitCheckoutIdle
    /\ InitPublishIdle
    /\ InitNewerIdle

NextPublish ==
    \/ MountAddProduct
    \/ \E hasSession \in BOOLEAN : AddProductSessionReturned(hasSession)
    \/ \E found \in BOOLEAN : CompanyReturned(found)
    \/ \E imageCount \in 0..1 : HandleSaveProduct(imageCount)
    \/ \E storageError \in BOOLEAN : UploadsReturned(storageError)
    \/ \E dbError \in BOOLEAN : ProductInsertReturned(dbError)
    \/ LeaveAddProduct
    \/ \E approved \in BOOLEAN : CompanyReviewed(approved)
    \/ \E i \in 1..MaxProducts : ProductApproved(i)
    \/ \E i \in 1..MaxProducts : ProductEdited(i)
    \/ \E selectError \in BOOLEAN : FetchProductsReturned(selectError)
    \/ \E id \in 1..MaxProducts : ProductPageRendered(id)

SpecPublish == InitPublish /\ [][NextPublish]_vars

\* C17: the company approval flag gates publishing: a product row is
\* inserted only if the company's approval flag in the backend is true at
\* the time of the insert, also when the page was entered with a company
\* status restored from the persisted cache.
C17_InsertOnlyWhileApproved ==
    [][Len(productsTable') > Len(productsTable) => companyApproved]_vars

\* C18: a product is shown in the home listing or on its detail page only
\* while its approval flag is true; a product that was added and not yet
\* approved is on neither.
C18_VisibleOnlyWhileApproved ==
    /\ \A i \in homeProducts : productsTable[i].is_approved
    /\ productShown.kind = "product" => productsTable[productShown.id].is_approved

----------------------------------------------------------------------------
\* Initial values of everything a specification below leaves alone

InitSettledIdle ==
    InitEarlierIdle /\ InitAddrIdle /\ InitFeedIdle /\ InitCheckoutIdle /\ InitPublishIdle

InitCartOrderOthers == InitSettledIdle /\ InitAddToCartIdle /\ InitSessionIdle /\ InitCallbackIdle /\ InitImagesIdle /\ InitEditIdle /\ InitPersistIdle

InitAddToCartOthers == InitSettledIdle /\ InitCartOrderIdle /\ InitSessionIdle /\ InitCallbackIdle /\ InitImagesIdle /\ InitEditIdle /\ InitPersistIdle

InitSessionOthers == InitSettledIdle /\ InitCartOrderIdle /\ InitAddToCartIdle /\ InitCallbackIdle /\ InitImagesIdle /\ InitEditIdle /\ InitPersistIdle

InitCallbackOthers == InitSettledIdle /\ InitCartOrderIdle /\ InitAddToCartIdle /\ InitSessionIdle /\ InitImagesIdle /\ InitEditIdle /\ InitPersistIdle

InitImagesOthers == InitSettledIdle /\ InitCartOrderIdle /\ InitAddToCartIdle /\ InitSessionIdle /\ InitCallbackIdle /\ InitEditIdle /\ InitPersistIdle

InitEditOthers == InitSettledIdle /\ InitCartOrderIdle /\ InitAddToCartIdle /\ InitSessionIdle /\ InitCallbackIdle /\ InitImagesIdle /\ InitPersistIdle

InitPersistOthers == InitSettledIdle /\ InitCartOrderIdle /\ InitAddToCartIdle /\ InitSessionIdle /\ InitCallbackIdle /\ InitImagesIdle /\ InitEditIdle

----------------------------------------------------------------------------
\* An order placed from CartPage (part_003).  The page lists the rows its
\* fetch returned, filtered by the search term of the header; the items of
\* an order are the listed ones.  A row is [id, product_name], product_name
\* <<>> when the joined product is null.

NameChars == {"a", "A", "b"}

ToLowerCase(str) == [i \in 1..Len(str) |-> IF str[i] = "A" THEN "a" ELSE str[i]]

\* String.prototype.includes
Includes(str, term) ==
    \E k \in 0..(Len(str) - Len(term)) :
        \A i \in 1..Len(term) : str[k + i] = term[i]

CartRowPool ==
    { [id |-> "c1", product_name |-> <<"A", "b">>],
      [id |-> "c2", product_name |-> <<"b">>],
      [id |-> "c3", product_name |-> <<>>] }

\* part_003 lines 238-241: filteredCartItems; for a row without product the
\* optional chain gives undefined and the row is left out
FilteredCartItems(items, searchTerm) ==
    { item \in items :
          /\ item.product_name # <<>>
          /\ Includes(ToLowerCase(item.product_name), ToLowerCase(searchTerm)) }

CartOrderUnchangedOthers == UNCHANGED <<settledVars, addToCartVars, sessionVars, callbackVars, imageVars, editVars, persistVars>>

\* part_003 lines 69-128: fetchCartItems has loaded the user's rows
CartFetched ==
    /\ cartView.pc = "browsing"
    /\ ~cartView.fetched
    /\ cartView' = [cartView EXCEPT !.cartItems = cartRows, !.fetched = TRUE]
    /\ UNCHANGED cartRows
    /\ CartOrderUnchangedOthers

\* the header's onSearch
SetSearchTerm(term) ==
    /\ cartView.pc = "browsing"
    /\ cartView.fetched
    /\ ~cartView.showCheckoutModal
    /\ term # cartView.searchTerm
    /\ cartView' = [cartView EXCEPT !.searchTerm = term]
    /\ UNCHANGED cartRows
    /\ CartOrderUnchangedOthers

\* part_003 lines 252-261
HandleProceedToCheckout ==
    /\ cartView.pc = "browsing"
    /\ cartView.fetched
    /\ ~cartView.showCheckoutModal
    /\ cartView' =
           IF FilteredCartItems(cartView.cartItems, cartView.searchTerm) = {}
           THEN cartView
           ELSE [cartView EXCEPT !.showCheckoutModal = TRUE]
    /\ cartView' # cartView
    /\ UNCHANGED cartRows
    /\ CartOrderUnchangedOthers

\* the modal stored an order of its items prop (part_003 lines 479-489) and
\* calls onOrderSuccess: handleOrderSuccess issues getSession
OrderPlaced ==
    /\ cartView.pc = "browsing"
    /\ cartView.showCheckoutModal
    /\ cartView' = [cartView EXCEPT
           !.pc = "session",
           !.ordered = { item.id : item \in
                            FilteredCartItems(cartView.cartItems, cartView.searchTerm) }]
    /\ UNCHANGED cartRows
    /\ CartOrderUnchangedOthers

\* part_003 lines 265-274: getSession and then the delete have returned
CartCleared(hasUser, deleteError) ==
    /\ cartView.pc = "session"
    /\ hasUser \/ ~deleteError
    /\ cartRows' = IF hasUser /\ ~deleteError THEN {} ELSE cartRows
    /\ cartView' = [cartView EXCEPT
           !.pc = "orders",
           !.cartItems = IF hasUser /\ ~deleteError THEN {} ELSE @,
           !.showCheckoutModal = FALSE]
    /\ CartOrderUnchangedOthers

InitCartOrder ==
    /\ InitCartOrderOthers
    /\ \E rows \in SUBSET CartRowPool :
           /\ rows # {}
           /\ cartRows = rows
    /\ cartView = CartViewInitial

NextCartOrder ==
    \/ CartFetched
    \/ \E term \in SeqsUpTo(NameChars, MaxTermLen) : SetSearchTerm(term)
    \/ HandleProceedToCheckout
    \/ OrderPlaced
    \/ \E hasUser \in BOOLEAN, deleteError \in BOOLEAN : CartCleared(hasUser, deleteError)

SpecCartOrder == InitCartOrder /\ [][NextCartOrder]_vars

\* C29: after an order placed from the cart page succeeds, the cart rows
\* that are deleted are exactly the items that were passed to checkout and
\* included in the order; rows that were not part of the order remain.
C29_DeletesExactlyOrdered ==
    [][(cartView.pc = "session" /\ cartRows' # cartRows) =>
           { row.id : row \in cartRows } \ { row.id : row \in cartRows' } = cartView.ordered]_vars

----------------------------------------------------------------------------
\* handleAddToCart, for one user and one product, in two open pages (tabs
\* or pages of one tab).  Each run selects the row with .single() and
\* inserts when it got none.  The source declares no constraint on
\* cart_items; an insert that returns no error has added a row.

AddSites == {"favorites", "productPage", "productDetails"}

\* what .single() hands back: "row", "PGRST116" (not exactly one row) or
\* "error".  With more than one row stored the answer is left open.
SingleResults(rows, failed) ==
    IF failed THEN {"error"}
    ELSE IF rows = 0 THEN {"PGRST116"}
    ELSE IF rows = 1 THEN {"row"}
    ELSE {"row", "PGRST116"}

\* addfav/page.tsx lines 213-233, part_006 lines 388-408 and
\* product/[id]/page.tsx lines 451-455: what the handler does with the answer
AfterSelect(site, result) ==
    IF result = "row" THEN "alreadyInCart"
    ELSE IF site = "productPage" THEN "insert"
    ELSE IF result = "PGRST116" THEN "insert"
    ELSE "failed"

AddToCartUnchangedOthers == UNCHANGED <<settledVars, cartOrderVars, sessionVars, callbackVars, imageVars, editVars, persistVars>>

\* the button is pressed with a user signed in; the select is issued
HandleAddToCart(h, site) ==
    /\ adder[h].pc = "idle"
    /\ adder[h].adds < MaxAdds
    /\ adder' = [adder EXCEPT ![h] = [pc |-> "select", site |-> site, adds |-> @.adds + 1]]
    /\ UNCHANGED cartProductRows
    /\ AddToCartUnchangedOthers

\* the select has returned
AddSelectReturned(h, failed) ==
    /\ adder[h].pc = "select"
    /\ \E result \in SingleResults(cartProductRows, failed) :
           LET next == AfterSelect(adder[h].site, result)
           IN  adder' = [adder EXCEPT ![h].pc = IF next = "insert" THEN "insert" ELSE "idle"]
    /\ UNCHANGED cartProductRows
    /\ AddToCartUnchangedOthers

\* the insert has returned
AddInsertReturned(h, insertError) ==
    /\ adder[h].pc = "insert"
    /\ cartProductRows' = IF insertError THEN cartProductRows ELSE cartProductRows + 1
    /\ adder' = [adder EXCEPT ![h].pc = "idle"]
    /\ AddToCartUnchangedOthers

\* handleRemoveFromCart / handleRemoveItem: the rows of the product are deleted
CartRowsRemoved ==
    /\ cartProductRows > 0
    /\ \A h \in AdderIds : adder[h].pc = "idle"
    /\ cartProductRows' = 0
    /\ UNCHANGED adder
    /\ AddToCartUnchangedOthers

InitAddToCart ==
    /\ InitAddToCartOthers
    /\ InitAddToCartIdle

NextAddToCart ==
    \/ \E h \in AdderIds, site \in AddSites : HandleAddToCart(h, site)
    \/ \E h \in AdderIds, failed \in BOOLEAN : AddSelectReturned(h, failed)
    \/ \E h \in AdderIds, insertError \in BOOLEAN : AddInsertReturned(h, insertError)
    \/ CartRowsRemoved

SpecAddToCart == InitAddToCart /\ [][NextAddToCart]_vars

\* C26: for a user and a product there is at most one cart row, under any
\* interleaving of add-to-cart actions.
C26_OneRowPerProduct == cartProductRows <= 1

----------------------------------------------------------------------------
\* The store across sessions: fetchStats (part_000 lines 94-262) and the
\* company check of AddProductPage read the store before they ask who is
\* signed in.  One browser, two company users.  Nothing in the store or in
\* the page reacts to a change of session; the session is the backend's.

Users == {"u1", "u2"}

CompanyIdOf(u) == IF u = "u1" THEN "A" ELSE "B"

\* the products of each user's company
ProductsOf(u) ==
    IF u = "u1" THEN CompanyProducts
    ELSE << [id |-> "b1", stock_quantity |-> 3, is_approved |-> TRUE] >>

\* lines 238-252: the stats object, companyName among its fields
StatsObject(u, orders) ==
    [companyName |-> CompanyIdOf(u), totals |-> ComputeStats(ProductsOf(u), orders)]

RefreshInFlight(c) == refresh[c].pc \in {"session", "orders", "answer"}

SessionUnchangedOthers == UNCHANGED <<settledVars, cartOrderVars, addToCartVars, callbackVars, imageVars, editVars, persistVars>>

\* lines 94-107: fetchStats(force) is called; the cache check comes first
RefreshStart(c, f) ==
    /\ ~RefreshInFlight(c)
    /\ IF IsFresh(f, dashCache.stats, dashCache.lastFetched, refreshNow)
       THEN /\ refresh' = [refresh EXCEPT ![c] =
                   [RefreshIdle EXCEPT !.pc = "done", !.outcome = "cached",
                                       !.served = dashCache.stats,
                                       !.servedTo = sessionUser]]
            /\ UNCHANGED refreshStarts
       ELSE /\ refreshStarts < MaxRefreshes
            /\ refreshStarts' = refreshStarts + 1
            /\ refresh' = [refresh EXCEPT ![c] =
                   [RefreshIdle EXCEPT !.pc = "session", !.force = f,
                                       !.startNo = refreshStarts + 1,
                                       !.outcome = "running"]]
    /\ UNCHANGED <<sessionUser, dashCache, refreshNow, refreshOrders, addProductGate,
                   sessionChanges>>
    /\ SessionUnchangedOthers

\* set({ error, loading: false }) of an early return or of the catch block
RefreshEnds(c, how) ==
    /\ refresh' = [refresh EXCEPT ![c] = [RefreshIdle EXCEPT !.pc = "done", !.outcome = how]]
    /\ UNCHANGED <<sessionUser, dashCache, refreshStarts, refreshNow, refreshOrders,
                   addProductGate, sessionChanges>>
    /\ SessionUnchangedOthers

\* lines 109-153: getSession, the company of session.user.id, its products
RefreshSessionReturned(c, failed) ==
    /\ refresh[c].pc = "session"
    /\ IF failed \/ sessionUser = NoUser
       THEN RefreshEnds(c, "failed")
       ELSE /\ refresh' = [refresh EXCEPT ![c].pc = "orders", ![c].userId = sessionUser]
            /\ UNCHANGED <<sessionUser, dashCache, refreshStarts, refreshNow, refreshOrders,
                           addProductGate, sessionChanges>>
            /\ SessionUnchangedOthers

\* lines 156-170: the backend evaluates the orders query
RefreshOrdersRead(c, failed) ==
    /\ refresh[c].pc = "orders"
    /\ IF failed
       THEN RefreshEnds(c, "failed")
       ELSE /\ refresh' = [refresh EXCEPT ![c].pc = "answer", ![c].orders = refreshOrders]
            /\ UNCHANGED <<sessionUser, dashCache, refreshStarts, refreshNow, refreshOrders,
                           addProductGate, sessionChanges>>
            /\ SessionUnchangedOthers

\* lines 172-256: the answer arrives, the statistics are computed and stored
RefreshStored(c) ==
    /\ refresh[c].pc = "answer"
    /\ dashCache' = [dashCache EXCEPT
           !.stats = << StatsObject(refresh[c].userId, refresh[c].orders) >>,
           !.lastFetched = refreshNow]
    /\ refresh' = [refresh EXCEPT ![c] =
           [RefreshIdle EXCEPT !.pc = "done", !.outcome = "ok",
                               !.startNo = refresh[c].startNo,
                               !.result = dashCache'.stats]]
    /\ UNCHANGED <<sessionUser, refreshStarts, refreshNow, refreshOrders, addProductGate,
                   sessionChanges>>
    /\ SessionUnchangedOthers

\* add-product/page.tsx lines 17, 37, 41-47 and 50: the page mounts
GateMounted ==
    /\ addProductGate.pc = "unmounted"
    /\ addProductGate' =
           IF dashCache.companyStatus # <<>>
           THEN [pc |-> "ready", company |-> dashCache.companyStatus, user |-> sessionUser]
           ELSE [pc |-> "session", company |-> <<>>, user |-> NoUser]
    /\ UNCHANGED <<sessionUser, dashCache, refresh, refreshStarts, refreshNow, refreshOrders,
                   sessionChanges>>
    /\ SessionUnchangedOthers

\* add-product/page.tsx lines 51-94: getSession and the companies row
GateCompanyReturned(failed) ==
    /\ addProductGate.pc = "session"
    /\ IF failed \/ sessionUser = NoUser
       THEN /\ addProductGate' = [addProductGate EXCEPT !.pc = "redirected"]
            /\ UNCHANGED dashCache
       ELSE /\ dashCache' = [dashCache EXCEPT !.companyStatus =
                   << [id |-> CompanyIdOf(sessionUser), is_approved |-> TRUE] >>]
            /\ addProductGate' = [pc |-> "ready", company |-> dashCache'.companyStatus,
                                  user |-> sessionUser]
    /\ UNCHANGED <<sessionUser, refresh, refreshStarts, refreshNow, refreshOrders,
                   sessionChanges>>
    /\ SessionUnchangedOthers

\* the user leaves the add-product page
GateLeft ==
    /\ addProductGate.pc \in {"ready", "redirected"}
    /\ addProductGate' = GateUnmounted
    /\ UNCHANGED <<sessionUser, dashCache, refresh, refreshStarts, refreshNow, refreshOrders,
                   sessionChanges>>
    /\ SessionUnchangedOthers

\* somebody signs in, or the session ends
SessionChanged(u) ==
    /\ u # sessionUser
    /\ sessionChanges < MaxSessionChanges
    /\ sessionUser' = u
    /\ sessionChanges' = sessionChanges + 1
    /\ UNCHANGED <<dashCache, refresh, refreshStarts, refreshNow, refreshOrders,
                   addProductGate>>
    /\ SessionUnchangedOthers

\* somebody places an order
RefreshOrdersChange ==
    /\ \E t \in DashOrderTables \ {refreshOrders} : refreshOrders' = t
    /\ UNCHANGED <<sessionUser, dashCache, refresh, refreshStarts, refreshNow,
                   addProductGate, sessionChanges>>
    /\ SessionUnchangedOthers

RefreshTick ==
    /\ refreshNow < MaxClock
    /\ refreshNow' = refreshNow + 1
    /\ UNCHANGED <<sessionUser, dashCache, refresh, refreshStarts, refreshOrders,
                   addProductGate, sessionChanges>>
    /\ SessionUnchangedOthers

InitSession ==
    /\ InitSessionOthers
    /\ sessionUser = "u1"
    /\ dashCache = EmptyCache
    /\ refresh = [c \in Calls |-> RefreshIdle]
    /\ refreshStarts = 0
    /\ refreshNow = 1
    /\ refreshOrders \in DashOrderTables
    /\ addProductGate = GateUnmounted
    /\ sessionChanges = 0

\* two invocations of fetchStats in one session
NextRefresh ==
    \/ \E c \in Calls, f \in BOOLEAN : RefreshStart(c, f)
    \/ \E c \in Calls, failed \in BOOLEAN : RefreshSessionReturned(c, failed)
    \/ \E c \in Calls, failed \in BOOLEAN : RefreshOrdersRead(c, failed)
    \/ \E c \in Calls : RefreshStored(c)
    \/ RefreshOrdersChange
    \/ RefreshTick

SpecRefresh == InitSession /\ [][NextRefresh]_vars

\* one invocation at a time, the add-product page, and the session changing
NextSession ==
    \/ \E f \in BOOLEAN : RefreshStart(1, f)
    \/ \E failed \in BOOLEAN : RefreshSessionReturned(1, failed)
    \/ \E failed \in BOOLEAN : RefreshOrdersRead(1, failed)
    \/ RefreshStored(1)
    \/ GateMounted
    \/ \E failed \in BOOLEAN : GateCompanyReturned(failed)
    \/ GateLeft
    \/ \E u \in Users \cup {NoUser} : SessionChanged(u)
    \/ RefreshOrdersChange
    \/ RefreshTick

SpecSession == InitSession /\ [][NextSession]_vars

RefreshHasResult(c) == refresh[c].outcome = "ok"

\* the invocation that started last among those that ended with a result
LastStarted ==
    CHOOSE c \in Calls :
        /\ RefreshHasResult(c)
        /\ \A d \in Calls : RefreshHasResult(d) => refresh[d].startNo <= refresh[c].startNo

\* C27: when two refreshes overlap, the statistics held after both have
\* finished are those computed by the refresh that started later: once no
\* refresh is under way, the store holds the result of the invocation that
\* started last among those that ended with a result.
C27_LaterStartedWins ==
    ((\A c \in Calls : ~RefreshInFlight(c)) /\ (\E c \in Calls : RefreshHasResult(c)))
        => dashCache.stats = refresh[LastStarted].result

\* C28: what the persisted store serves belongs to the user signed in: a
\* non-forced fetchStats answered from the cache returns statistics of the
\* signed-in user's company, and the add-product page that is ready holds the
\* company of the user signed in when it was mounted.
C28_CacheBelongsToUser ==
    /\ \A c \in Calls :
           (refresh[c].outcome = "cached" /\ refresh[c].servedTo # NoUser)
               => refresh[c].served[1].companyName = CompanyIdOf(refresh[c].servedTo)
    /\ (addProductGate.pc = "ready" /\ addProductGate.user # NoUser)
           => addProductGate.company[1].id = CompanyIdOf(addProductGate.user)

----------------------------------------------------------------------------
\* AuthCallback (auth/callback/page.tsx): the effect subscribes to auth
\* events; an event with a session calls handleRoleRedirect, which a ref
\* lets through once.  The ref belongs to the mount and outlives a re-run of
\* the effect; a select in flight returns even after the page was left.

AuthEventNames == {"SIGNED_IN", "INITIAL_SESSION", "TOKEN_REFRESHED", "SIGNED_OUT"}

CallbackUnchangedOthers == UNCHANGED <<settledVars, cartOrderVars, addToCartVars, sessionVars, imageVars, editVars, persistVars>>

\* line 18 without the ref: every call goes through
RedirectStartedIgnored(m) == FALSE

\* line 18: if (redirectStarted.current) return
RedirectStarted(m) == callbackMount[m].redirectStarted

\* lines 53-56: the listener's condition
CallsHandler(event, hasSession) ==
    event \in {"SIGNED_IN", "INITIAL_SESSION"} /\ hasSession

\* lines 10-15, 44-46: the page mounts, its effect subscribes
CallbackMounted(m) ==
    /\ callbackCurrent = NoMount
    /\ callbackMount[m] = MountFresh
    /\ \A k \in MountIds : k < m => callbackMount[k] # MountFresh
    /\ callbackCurrent' = m
    /\ callbackSubscribed' = TRUE
    /\ callbackMount' = [callbackMount EXCEPT ![m].effectRuns = 1]
    /\ UNCHANGED authEvents
    /\ CallbackUnchangedOthers

\* lines 16-27 and 46-60: an auth event is delivered to the listener
OnAuthStateChange(event, hasSession) ==
    /\ callbackCurrent # NoMount
    /\ callbackSubscribed
    /\ authEvents < MaxAuthEvents
    /\ authEvents' = authEvents + 1
    /\ LET m == callbackCurrent
       IN  IF ~CallsHandler(event, hasSession)
           THEN UNCHANGED callbackMount
           ELSE IF RedirectStarted(m)
           THEN callbackMount' = [callbackMount EXCEPT ![m].delivered = @ + 1]
           ELSE callbackMount' = [callbackMount EXCEPT
                    ![m].delivered = @ + 1,
                    ![m].redirectStarted = TRUE,
                    ![m].selects = @ + 1,
                    ![m].checks = @ + 1]
    /\ UNCHANGED <<callbackCurrent, callbackSubscribed>>
    /\ CallbackUnchangedOthers

\* lines 29-40: the companies select returns or throws; router.replace
RoleSelectReturned(m, answer) ==
    /\ callbackMount[m].selects > 0
    /\ callbackMount' = [callbackMount EXCEPT
           ![m].selects = @ - 1,
           ![m].redirects = @ + 1,
           ![m].target = IF answer = "company" THEN "/company/dashboard" ELSE "/"]
    /\ UNCHANGED <<callbackCurrent, callbackSubscribed, authEvents>>
    /\ CallbackUnchangedOthers

\* line 66: router changes identity; the cleanup runs and the effect runs again
EffectRerun ==
    /\ callbackCurrent # NoMount
    /\ callbackMount[callbackCurrent].effectRuns < MaxEffectRuns
    /\ callbackSubscribed' = TRUE
    /\ callbackMount' = [callbackMount EXCEPT ![callbackCurrent].effectRuns = @ + 1]
    /\ UNCHANGED <<callbackCurrent, authEvents>>
    /\ CallbackUnchangedOthers

\* lines 62-65: the page is left, by the redirect or by the user
CallbackUnmounted ==
    /\ callbackCurrent # NoMount
    /\ callbackCurrent' = NoMount
    /\ callbackSubscribed' = FALSE
    /\ UNCHANGED <<callbackMount, authEvents>>
    /\ CallbackUnchangedOthers

InitCallback ==
    /\ InitCallbackOthers
    /\ InitCallbackIdle

NextCallback ==
    \/ \E m \in MountIds : CallbackMounted(m)
    \/ \E event \in AuthEventNames, hasSession \in BOOLEAN : OnAuthStateChange(event, hasSession)
    \/ \E m \in MountIds, answer \in {"company", "none", "throws"} : RoleSelectReturned(m, answer)
    \/ EffectRerun
    \/ CallbackUnmounted

SpecCallback == InitCallback /\ [][NextCallback]_vars

\* C25: on the auth callback page the role check and the redirect each run
\* at most once per mount of the page, whatever SIGNED_IN and INITIAL_SESSION
\* events are delivered with a session.
C25_OnceRoleCheck ==
    \A m \in MountIds : callbackMount[m].checks <= 1 /\ callbackMount[m].redirects <= 1

\* a mount that received two events with a session and redirected once
C25_Witness ==
    \E m \in MountIds :
        /\ callbackMount[m].delivered >= 2
        /\ callbackMount[m].checks = 1
        /\ callbackMount[m].redirects = 1

----------------------------------------------------------------------------
\* The images of AddEditProductForm (part_000 lines 669-671, 733, 769-817).
\* Select, drop and remove are discrete events: each handler runs against
\* the state the previous one left.  Files are numbered in the order chosen.

ImageLimitMessage == "You can upload a maximum of 5 images (including existing ones)."

\* the urls a stored product can bring; the form stored at most 5
StoredUrls == <<"p1", "p2", "p3", "p4", "p5">>

\* Array.from(files) of an event that brings n files
FileArray(n) == [i \in 1..n |-> imageEvents * MaxFilesPerAdd + i]

\* lines 773 and 789 counting the new files only
OverLimitNewOnly(selected, existing, fileArray) ==
    Len(selected) + Len(fileArray) > IMAGE_LIMIT

\* lines 773 and 789
OverLimit(selected, existing, fileArray) ==
    Len(selected) + Len(existing) + Len(fileArray) > IMAGE_LIMIT

\* prev.filter((_, i) => i !== index), index counted from 1 here
WithoutIndex(s, index) == [i \in 1..(Len(s) - 1) |-> IF i < index THEN s[i] ELSE s[i + 1]]

ImagesUnchangedOthers == UNCHANGED <<settledVars, cartOrderVars, addToCartVars, sessionVars, callbackVars, editVars, persistVars>>

\* lines 769-780 and 782-796: handleImageChange and handleImageDrop
AddImages(n) ==
    /\ imageEvents < MaxImageEvents
    /\ imageEvents' = imageEvents + 1
    /\ lastAdd' = [files |-> FileArray(n),
                   total |-> Len(selectedImages) + Len(existingImages)]
    /\ IF OverLimit(selectedImages, existingImages, FileArray(n))
       THEN /\ imageError' = ImageLimitMessage
            /\ UNCHANGED selectedImages
       ELSE /\ selectedImages' = selectedImages \o FileArray(n)
            /\ imageError' = ""
    /\ UNCHANGED <<existingImages, removedImageUrls>>
    /\ ImagesUnchangedOthers

HandleImageChange(n) == AddImages(n)

HandleImageDrop(n) == AddImages(n)

\* lines 810-812
HandleRemoveNewImage(index) ==
    /\ imageEvents < MaxImageEvents
    /\ index \in 1..Len(selectedImages)
    /\ imageEvents' = imageEvents + 1
    /\ selectedImages' = WithoutIndex(selectedImages, index)
    /\ lastAdd' = NoAdd
    /\ UNCHANGED <<existingImages, removedImageUrls, imageError>>
    /\ ImagesUnchangedOthers

\* lines 814-817
HandleRemoveExistingImage(index) ==
    /\ imageEvents < MaxImageEvents
    /\ index \in 1..Len(existingImages)
    /\ imageEvents' = imageEvents + 1
    /\ existingImages' = WithoutIndex(existingImages, index)
    /\ removedImageUrls' = Append(removedImageUrls, existingImages[index])
    /\ lastAdd' = NoAdd
    /\ UNCHANGED <<selectedImages, imageError>>
    /\ ImagesUnchangedOthers

\* line 733: the form starts with the stored images of the product, if any
InitImages ==
    /\ InitImagesOthers
    /\ selectedImages = <<>>
    /\ \E k \in 0..IMAGE_LIMIT : existingImages = SubSeq(StoredUrls, 1, k)
    /\ removedImageUrls = <<>>
    /\ imageError = ""
    /\ imageEvents = 0
    /\ lastAdd = NoAdd

NextImages ==
    \/ \E n \in 0..MaxFilesPerAdd : HandleImageChange(n)
    \/ \E n \in 0..MaxFilesPerAdd : HandleImageDrop(n)
    \/ \E index \in 1..IMAGE_LIMIT : HandleRemoveNewImage(index)
    \/ \E index \in 1..IMAGE_LIMIT : HandleRemoveExistingImage(index)

SpecImages == InitImages /\ [][NextImages]_vars

\* this step handled a select or a drop that would have passed the limit
RejectedAdd ==
    /\ imageEvents' # imageEvents
    /\ lastAdd' # NoAdd
    /\ lastAdd'.total + Len(lastAdd'.files) > IMAGE_LIMIT

\* C24: at every point of any sequence of image select, drop and remove
\* actions the new images and the retained stored images together are at
\* most 5, and a select or drop that would pass 5 adds none of its files and
\* leaves both lists as they were.
C24_ImageLimit ==
    /\ [](Len(selectedImages) + Len(existingImages) <= IMAGE_LIMIT)
    /\ [][RejectedAdd => /\ selectedImages' = selectedImages
                         /\ existingImages' = existingImages]_vars

\* five images held, two of them new, and a select of two files refused
C24_Witness ==
    /\ Len(selectedImages) + Len(existingImages) = IMAGE_LIMIT
    /\ Len(selectedImages) >= 2
    /\ Len(existingImages) >= 1
    /\ Len(lastAdd.files) = 2
    /\ lastAdd.total = IMAGE_LIMIT
    /\ imageError = ImageLimitMessage

----------------------------------------------------------------------------
\* EditProductPage: the product is loaded into AddEditProductForm, the user
\* may choose or remove the video, and handleSaveProduct writes the row.
\* Two copies of the page exist: edit-product/[id]/page.tsx and part_002.
\* A path is a sequence of segments; null is NoPath.

EditCopies == {"editProduct", "part_002"}

VideoFolder == <<"videos", "A">>

\* uploadFile: the path of the n-th file uploaded
UploadedVideoPath(n) == Append(VideoFolder, ToString(n))

\* getPathFromPublicUrl (edit-product/[id]/page.tsx lines 58-63): null for
\* no url, else what follows the first "product-media/" up to the next one.
\* The public url of path p is the storage prefix, the bucket, then p.
GetPathFromPublicUrl(url) ==
    IF url.kind # "publicUrl" THEN NoPath
    ELSE LET stops == { i \in 1..Len(url.path) : url.path[i] = "product-media" }
         IN  IF stops = {} THEN url.path
             ELSE SubSeq(url.path, 1, (CHOOSE i \in stops : \A j \in stops : i <= j) - 1)

\* lines 162-164: the url the form is given for the stored video
ExistingProductVideoUrl(product_video_url) ==
    IF product_video_url = NoPath THEN NullUrl
    ELSE GetPublicUrlFromPathEditProduct(product_video_url)

\* productUpdateData of part_002 (lines 487-518) resets the approval;
\* that of edit-product/[id]/page.tsx (lines 290-308) has no is_approved
IsApprovedAfterUpdate(copy, is_approved) ==
    IF copy = "part_002" THEN FALSE ELSE is_approved

EditUnchangedOthers == UNCHANGED <<settledVars, cartOrderVars, addToCartVars, sessionVars, callbackVars, imageVars, persistVars>>

\* lines 82-192: the page has fetched the product; the form is mounted and
\* its effect (part_000 lines 713-737) takes the stored video's url
EditPageLoaded(copy) ==
    /\ editForm.pc = "unloaded"
    /\ editRow.saves < MaxSaves
    /\ LET url == ExistingProductVideoUrl(editRow.product_video_url)
       IN  editForm' = [EditFormUnloaded EXCEPT !.pc = "form", !.copy = copy,
                                               !.existingProductVideoUrl = url,
                                               !.existingVideoUrl = url]
    /\ UNCHANGED <<editRow, storageVideos>>
    /\ EditUnchangedOthers

\* part_000 lines 820-838: handleVideoChange, handleVideoDrop alike
HandleVideoChange(hasFile, tooBig) ==
    /\ editForm.pc = "form"
    /\ editForm' =
           IF ~hasFile \/ tooBig
           THEN [editForm EXCEPT !.selectedVideo = NoFile]
           ELSE [editForm EXCEPT !.selectedVideo = <<"file">>, !.existingVideoUrl = NullUrl]
    /\ UNCHANGED <<editRow, storageVideos>>
    /\ EditUnchangedOthers

\* part_000 lines 875-879
HandleRemoveVideo ==
    /\ editForm.pc = "form"
    /\ editForm' = [editForm EXCEPT !.selectedVideo = NoFile, !.existingVideoUrl = NullUrl,
                                    !.removed = TRUE]
    /\ UNCHANGED <<editRow, storageVideos>>
    /\ EditUnchangedOthers

\* part_000 lines 919-927 and handleSaveProduct up to its first await:
\* onSave(data, selectedImages, selectedVideo, removedImageUrls)
HandleSaveProductEdit ==
    /\ editForm.pc = "form"
    /\ editForm' = [editForm EXCEPT !.pc = "session", !.newVideo = editForm.selectedVideo,
                                    !.submissionError = ""]
    /\ UNCHANGED <<editRow, storageVideos>>
    /\ EditUnchangedOthers

\* lines 222-238: the session and the company
EditSessionReturned(failed) ==
    /\ editForm.pc = "session"
    /\ editForm' = IF failed
                   THEN [editForm EXCEPT !.pc = "form",
                             !.submissionError = "Authentication required to save changes."]
                   ELSE [editForm EXCEPT !.pc = "video"]
    /\ UNCHANGED <<editRow, storageVideos>>
    /\ EditUnchangedOthers

\* lines 267-287 (part_002 lines 473-485): the video branch
VideoHandled ==
    /\ editForm.pc = "video"
    /\ LET existingVideoPath == GetPathFromPublicUrl(editForm.existingProductVideoUrl)
           uploaded == UploadedVideoPath(editRow.saves + 2)
       IN  IF editForm.newVideo # NoFile
           THEN /\ storageVideos' = (storageVideos \cup {uploaded}) \ {existingVideoPath}
                /\ editForm' = [editForm EXCEPT !.pc = "update",
                                                !.finalProductVideoPath = uploaded]
           ELSE IF editForm.existingProductVideoUrl.kind = "publicUrl"
           THEN /\ storageVideos' = storageVideos \ {existingVideoPath}
                /\ editForm' = [editForm EXCEPT !.pc = "update",
                                                !.finalProductVideoPath = NoPath]
           ELSE /\ UNCHANGED storageVideos
                /\ editForm' = [editForm EXCEPT !.pc = "update",
                                                !.finalProductVideoPath = existingVideoPath]
    /\ UNCHANGED editRow
    /\ EditUnchangedOthers

\* lines 290-326 (part_002 lines 487-535): the update of the row
EditUpdateReturned(dbError) ==
    /\ editForm.pc = "update"
    /\ IF dbError
       THEN /\ editForm' = [editForm EXCEPT !.pc = "form",
                                !.submissionError = "Error updating product. Please try again."]
            /\ UNCHANGED editRow
       ELSE /\ editRow' = [editRow EXCEPT
                   !.product_video_url = editForm.finalProductVideoPath,
                   !.is_approved = IsApprovedAfterUpdate(editForm.copy, @),
                   !.saves = @ + 1]
            /\ editForm' = [editForm EXCEPT !.pc = "saved"]
    /\ UNCHANGED storageVideos
    /\ EditUnchangedOthers

\* router.push to my-products, or the user leaves the page
EditPageLeft ==
    /\ editForm.pc \in {"form", "saved"}
    /\ editForm' = EditFormUnloaded
    /\ UNCHANGED <<editRow, storageVideos>>
    /\ EditUnchangedOthers

\* an administrator approves the product
EditedProductApproved ==
    /\ ~editRow.is_approved
    /\ editRow.approvals < MaxAdminChanges
    /\ editRow' = [editRow EXCEPT !.is_approved = TRUE, !.approvals = @ + 1]
    /\ UNCHANGED <<storageVideos, editForm>>
    /\ EditUnchangedOthers

\* a product of the company, with or without a stored video
InitEdit ==
    /\ InitEditOthers
    /\ \E video \in {NoPath, UploadedVideoPath(1)} :
           /\ editRow = [product_video_url |-> video, is_approved |-> FALSE,
                         saves |-> 0, approvals |-> 0]
           /\ storageVideos = {video} \ {NoPath}
    /\ editForm = EditFormUnloaded

NextEdit ==
    \/ \E copy \in EditCopies : EditPageLoaded(copy)
    \/ \E hasFile \in BOOLEAN, tooBig \in BOOLEAN : HandleVideoChange(hasFile, tooBig)
    \/ HandleRemoveVideo
    \/ HandleSaveProductEdit
    \/ \E failed \in BOOLEAN : EditSessionReturned(failed)
    \/ VideoHandled
    \/ \E dbError \in BOOLEAN : EditUpdateReturned(dbError)
    \/ EditPageLeft
    \/ EditedProductApproved

SpecEdit == InitEdit /\ [][NextEdit]_vars

\* this step is the update of a save that succeeds
EditSaved == editForm.pc = "update" /\ editForm'.pc = "saved"

\* C22: when a product that has a video is saved from the edit page with no
\* new video chosen and without the user having removed the video, the
\* stored file is still there and the row's video path is what it was.
C22_VideoKept ==
    [][(/\ EditSaved
        /\ editRow.product_video_url # NoPath
        /\ editForm.newVideo = NoFile
        /\ ~editForm.removed)
           => /\ editRow'.product_video_url = editRow.product_video_url
              /\ editRow.product_video_url \in storageVideos']_vars

\* C23: every successful save of an edit sets the product's approval flag to
\* false.
C23_EditResetsApproval ==
    [][EditSaved => ~editRow'.is_approved]_vars

----------------------------------------------------------------------------
\* The store and localStorage (part_000 lines 80-93 and 264-274).  persist
\* writes JSON.stringify of the partialized state under "dashboard-storage"
\* after every set, and merges JSON.parse of the entry into the created
\* store when the page loads.  One tab.  A JavaScript value is kept with its
\* type; its JSON text keeps a number as decimal digits and leaves out a
\* property that is undefined.

JNumber(n) == [t |-> "number", n |-> n, s |-> ""]

JString(s) == [t |-> "string", n |-> 0, s |-> s]

JUndefined == [t |-> "undefined", n |-> 0, s |-> ""]

\* JSON.stringify of a property's value
StringifyValue(v) ==
    CASE v.t = "number" -> [t |-> "number", digits |-> DigitsOf(v.n), chars |-> ""]
      [] v.t = "string" -> [t |-> "string", digits |-> <<>>, chars |-> v.s]
      [] v.t = "undefined" -> [t |-> "omitted", digits |-> <<>>, chars |-> ""]

\* JSON.parse, and the read of a property that may be missing
ParseValue(x) ==
    CASE x.t = "number" -> JNumber(ParseInt(x.digits))
      [] x.t = "string" -> JString(x.chars)
      [] x.t = "omitted" -> JUndefined

StringifyObject(o) == [k \in DOMAIN o |-> StringifyValue(o[k])]

ParseObject(x) == [k \in DOMAIN x |-> ParseValue(x[k])]

\* null, or an object
StringifyNullable(v) == IF v = <<>> THEN <<>> ELSE << StringifyObject(v[1]) >>

ParseNullable(x) == IF x = <<>> THEN <<>> ELSE << ParseObject(x[1]) >>

\* lines 266-273 without lastFetched
PartializeWithoutLastFetched(state) ==
    [companyStatus |-> state.companyStatus,
     addProductFormState |-> state.addProductFormState,
     stats |-> state.stats]

\* lines 266-273: partialize
Partialize(state) ==
    [companyStatus |-> state.companyStatus,
     addProductFormState |-> state.addProductFormState,
     stats |-> state.stats,
     lastFetched |-> state.lastFetched]

\* the entry persist writes for a state
StorageEntry(state) ==
    LET partial == Partialize(state)
    IN  << [k \in DOMAIN partial |->
                IF k = "lastFetched"
                THEN IF partial[k] = <<>> THEN <<>> ELSE << StringifyValue(partial[k][1]) >>
                ELSE StringifyNullable(partial[k])] >>

\* the store after the page has loaded: the created store with the entry's
\* properties over it
Rehydrated(item) ==
    IF item = NoItem THEN StoreCreated
    ELSE LET text == item[1]
             has(k) == k \in DOMAIN text
         IN  [stats |-> IF has("stats") THEN ParseNullable(text.stats) ELSE StoreCreated.stats,
              loading |-> StoreCreated.loading,
              error |-> StoreCreated.error,
              lastFetched |->
                  IF ~has("lastFetched") THEN StoreCreated.lastFetched
                  ELSE IF text.lastFetched = <<>> THEN <<>>
                  ELSE << ParseValue(text.lastFetched[1]) >>,
              companyStatus |->
                  IF has("companyStatus") THEN ParseNullable(text.companyStatus)
                  ELSE StoreCreated.companyStatus,
              addProductFormState |->
                  IF has("addProductFormState") THEN ParseNullable(text.addProductFormState)
                  ELSE StoreCreated.addProductFormState]

\* lines 238-252: the stats object of the company for an orders table
PersistedStats(orders) ==
    LET c == ComputeStats(CompanyProducts, orders)
    IN  [companyName |-> JString("A"),
         totalProducts |-> JNumber(c.totalProducts),
         totalOrders |-> JNumber(c.totalOrders),
         totalSalesAmount |-> JNumber(c.totalSalesAmount)]

\* part_000 lines 692-711 and 759-766: what watch() hands to onValuesChange
WatchedValues ==
    { [productName |-> JString(name), sku |-> JString(sku), weightUnit |-> JString("kg")] :
          name \in {"", "Tea"}, sku \in {"", "S1"} }

Truthy(v) == (v.t = "string" /\ v.s # "") \/ (v.t = "number" /\ v.n # 0)

\* add-product/page.tsx lines 23-36: initialFormState
InitialFormState(addProductFormState) ==
    IF addProductFormState = <<>> THEN <<>>
    ELSE << [addProductFormState[1] EXCEPT
                 !.sku = IF Truthy(@) THEN @ ELSE JString(""),
                 !.weightUnit = JString("kg")] >>

PersistUnchangedOthers == UNCHANGED <<settledVars, cartOrderVars, addToCartVars, sessionVars, callbackVars, imageVars, editVars>>

\* set(...): the store takes the new state and persist writes the entry
StoreSet(state) ==
    /\ storeUpdates < MaxStoreUpdates
    /\ storeUpdates' = storeUpdates + 1
    /\ storeState' = state
    /\ storageItem' = StorageEntry(state)
    /\ UNCHANGED <<pageDraft, reloads>>
    /\ PersistUnchangedOthers

\* lines 238-256: fetchStats stores its result at time t
StatsSet(orders, t) ==
    StoreSet([storeState EXCEPT !.stats = << PersistedStats(orders) >>, !.loading = FALSE,
                                !.error = Null, !.lastFetched = << JNumber(t) >>])

\* lines 113-114, 130-131, 258-261: fetchStats fails
ErrorSet ==
    StoreSet([storeState EXCEPT !.error = "Authentication required.", !.loading = FALSE])

\* line 91, called by the form's effect (lines 762-766)
SetAddProductFormState(data) ==
    StoreSet([storeState EXCEPT !.addProductFormState = << data >>])

\* line 92, called after a product was added
ClearAddProductFormState ==
    StoreSet([storeState EXCEPT !.addProductFormState = <<>>])

\* line 90
SetCompanyStatus ==
    StoreSet([storeState EXCEPT !.companyStatus =
                  << [id |-> JString("A"), is_approved |-> JNumber(1)] >>])

\* the page is reloaded: a new store is created and takes the entry
Reload ==
    /\ reloads < MaxReloads
    /\ reloads' = reloads + 1
    /\ storeState' = Rehydrated(storageItem)
    /\ pageDraft' = <<>>
    /\ storeUpdates' = 0
    /\ UNCHANGED storageItem
    /\ PersistUnchangedOthers

\* add-product/page.tsx lines 23-36: the add-product page mounts
AddProductPageMounted ==
    /\ pageDraft = <<>>
    /\ pageDraft' = << [value |-> InitialFormState(storeState.addProductFormState)] >>
    /\ UNCHANGED <<storeState, storageItem, storeUpdates, reloads>>
    /\ PersistUnchangedOthers

InitPersist ==
    /\ InitPersistOthers
    /\ InitPersistIdle

NextPersist ==
    \/ \E orders \in DashOrderTables, t \in 1..MaxClock : StatsSet(orders, t)
    \/ ErrorSet
    \/ \E data \in WatchedValues : SetAddProductFormState(data)
    \/ ClearAddProductFormState
    \/ SetCompanyStatus
    \/ Reload
    \/ AddProductPageMounted

SpecPersist == InitPersist /\ [][NextPersist]_vars

====
